---- MODULE Spec2Model ----
(***************************************************************************)
(* A model of primate's generic data-access layer: the relation inference  *)
(* of prisma/orm.js (generatePrismaOrmObject) and the generic service      *)
(* PrimateService (create, update, get, all, sanitizeData).                *)
(*                                                                         *)
(* JavaScript strings that the code takes apart (identifiers, query-string *)
(* values) are sequences of one-character strings; names that the code     *)
(* only compares (model, field and relation names) are TLA+ strings, and   *)
(* the three string functions applied to them (first letter to lower case, *)
(* first letter to upper case, pluralize) are tables over the names used.  *)
(***************************************************************************)
EXTENDS Integers, Sequences, FiniteSets, TLC

VARIABLES
    dmmf,     \* Prisma.dmmf: [present, models], models a sequence of [name, fields]
    orm,      \* PrismaOrmObject: [null, models (Object.keys order), obj]
    pc,       \* position of the module initialisation / "ready" / "failed"
    cur,      \* index of the models.forEach iteration of generatePrismaOrmObject
    db,       \* the storage backend's contents
    req,      \* the last service call: operation and arguments
    calls,    \* backend calls issued by the last service call, in order
    res,      \* outcome of the last service call
    ctl,      \* the PrimateController instance: [service, options], options shared
    tasks     \* the asynchronous calls in flight, each with its position and locals

vars == <<dmmf, orm, pc, cur, db, req, calls, res, ctl, tasks>>

Undefined == "<undefined>"

NoRequest == [op |-> "none"]
NoResult == [status |-> "none"]
NoController == [service |-> {}]
NoTasks == <<>>

----------------------------------------------------------------------------
(* String helpers over the names of the model.                             *)

\* modelName.charAt(0).toLowerCase() + modelName.slice(1)
LowerFirst(s) ==
    CASE s = "User" -> "user"
      [] s = "Team" -> "team"
      [] s = "Post" -> "post"
      [] s = "Tag" -> "tag"
      [] s = "Person" -> "person"
      [] OTHER -> s

\* otherModel.charAt(0).toUpperCase() + otherModel.slice(1)
UpperFirst(s) ==
    CASE s = "user" -> "User"
      [] s = "team" -> "Team"
      [] s = "post" -> "Post"
      [] s = "tag" -> "Tag"
      [] s = "person" -> "Person"
      [] OTHER -> s

\* pluralize(word): regular plurals add "s"; "person" is irregular
pluralize(s) ==
    CASE s = "user" -> "users"
      [] s = "team" -> "teams"
      [] s = "post" -> "posts"
      [] s = "tag" -> "tags"
      [] s = "person" -> "people"
      [] OTHER -> s

----------------------------------------------------------------------------
(* prisma/orm.js: the entity descriptor map.                               *)
(* obj[model] is [fields, hasRelations, relOrder, relations]: fields maps  *)
(* each declared field name to its type, relations maps a target model to  *)
(* its descriptor and relOrder is the insertion order of its keys.         *)

NoRelation == [type |-> Undefined, model |-> Undefined, plural |-> Undefined, field |-> Undefined]

SeqToSet(s) == {s[i] : i \in DOMAIN s}

\* obj[model].hasOwnProperty(key), also the truthiness of obj[model][key]
HasKey(entry, key) ==
    \/ key \in DOMAIN entry.fields
    \/ key = "relations" /\ entry.hasRelations

\* lines 38-50: one entry per model, one key per field, holding the field type
BuildFields(models) ==
    LET names == [i \in DOMAIN models |-> LowerFirst(models[i].name)]
        \* a later model of the same key replaces the earlier entry
        last(k) == CHOOSE i \in DOMAIN models :
                      /\ names[i] = k
                      /\ \A j \in DOMAIN models : names[j] = k => j <= i
        flds(i) == models[i].fields
        ftype(i, f) == LET p == CHOOSE q \in DOMAIN flds(i) :
                                  /\ flds(i)[q].name = f
                                  /\ \A r \in DOMAIN flds(i) : flds(i)[r].name = f => r <= q
                       IN flds(i)[p].type
    IN [k \in SeqToSet(names) |->
          [fields |-> [f \in {flds(last(k))[q].name : q \in DOMAIN flds(last(k))} |-> ftype(last(k), f)],
           hasRelations |-> FALSE,
           relOrder |-> <<>>,
           relations |-> <<>>]]

\* obj[model].relations[otherModel] = descriptor (creating relations when undefined)
SetRelation(entry, otherModel, descriptor) ==
    [entry EXCEPT
        !.hasRelations = TRUE,
        !.relOrder = IF otherModel \in SeqToSet(entry.relOrder) THEN @ ELSE Append(@, otherModel),
        !.relations = [k \in SeqToSet(entry.relOrder) \cup {otherModel} |->
                          IF k = otherModel THEN descriptor ELSE entry.relations[k]]]

ManyToManyDescriptor(otherModel) ==
    [type |-> "many-to-many", model |-> otherModel, plural |-> pluralize(otherModel), field |-> Undefined]

OneToManyDescriptor(otherModel, field) ==
    [type |-> "one-to-many", model |-> otherModel, plural |-> Undefined, field |-> field]

\* the two plural names looked up on the wrong sides
ManyToManyTestSwapped(obj, model, otherModel) ==
    /\ HasKey(obj[model], LowerFirst(pluralize(model)))
    /\ HasKey(obj[otherModel], LowerFirst(pluralize(otherModel)))

\* line 77: both sides declare the other's plural
ManyToManyTest(obj, model, otherModel) ==
    /\ HasKey(obj[model], LowerFirst(pluralize(otherModel)))
    /\ HasKey(obj[otherModel], LowerFirst(pluralize(model)))

\* lines 102-107: a field id<Other> here, a field plural(model) there
OneToManyField(otherModel) == "id" \o UpperFirst(otherModel)

\* the inner loop over the other model's fields left out
OneToManyTestOwnSideOnly(obj, model, otherModel) ==
    /\ OneToManyField(otherModel) \in DOMAIN obj[model].fields
    /\ OneToManyField(otherModel) # "relations"

OneToManyTest(obj, model, otherModel) ==
    /\ OneToManyField(otherModel) \in DOMAIN obj[model].fields
    /\ OneToManyField(otherModel) # "relations"
    /\ pluralize(model) \in DOMAIN obj[otherModel].fields
    /\ pluralize(model) # "relations"

RECURSIVE ManyToManyLoop(_, _, _, _)
ManyToManyLoop(obj, models, model, i) ==
    IF i > Len(models) THEN obj
    ELSE LET otherModel == models[i]
             next == IF model # otherModel /\ ManyToManyTest(obj, model, otherModel)
                     THEN [obj EXCEPT ![model] = SetRelation(@, otherModel, ManyToManyDescriptor(otherModel))]
                     ELSE obj
         IN ManyToManyLoop(next, models, model, i + 1)

\* lines 69-90
addManyToManyRelations(obj, models, model) == ManyToManyLoop(obj, models, model, 1)

RECURSIVE OneToManyLoop(_, _, _, _)
OneToManyLoop(obj, models, model, i) ==
    IF i > Len(models) THEN obj
    ELSE LET otherModel == models[i]
             next == IF model # otherModel /\ OneToManyTest(obj, model, otherModel)
                     THEN [obj EXCEPT ![model] = SetRelation(@, otherModel,
                                                    OneToManyDescriptor(otherModel, OneToManyField(otherModel)))]
                     ELSE obj
         IN OneToManyLoop(next, models, model, i + 1)

\* lines 99-123
addOneToManyRelations(obj, models, model) == OneToManyLoop(obj, models, model, 1)

----------------------------------------------------------------------------
(* Module initialisation of prisma/orm.js, lines 127-133, one step per     *)
(* statement of generatePrismaOrmObject.                                   *)

NullOrm == [null |-> TRUE, models |-> <<>>, obj |-> <<>>]

\* line 34: Prisma.dmmf is missing, generatePrismaOrmObject throws, the catch logs
GenerateThrows ==
    /\ pc = "load"
    /\ ~dmmf.present
    /\ pc' = "ready"
    /\ orm' = NullOrm
    /\ UNCHANGED <<ctl, tasks, dmmf, cur, db, req, calls, res>>

\* lines 38-52
GenerateFields ==
    /\ pc = "load"
    /\ dmmf.present
    /\ orm' = [null |-> TRUE,
               models |-> [i \in DOMAIN dmmf.models |-> LowerFirst(dmmf.models[i].name)],
               obj |-> BuildFields(dmmf.models)]
    /\ cur' = 1
    /\ pc' = IF Len(dmmf.models) = 0 THEN "return" ELSE "m2m"
    /\ UNCHANGED <<ctl, tasks, dmmf, db, req, calls, res>>

\* line 55
AddManyToMany ==
    /\ pc = "m2m"
    /\ orm' = [orm EXCEPT !.obj = addManyToManyRelations(orm.obj, orm.models, orm.models[cur])]
    /\ pc' = "o2m"
    /\ UNCHANGED <<ctl, tasks, dmmf, cur, db, req, calls, res>>

\* line 56, and the forEach of line 54 moving on
AddOneToMany ==
    /\ pc = "o2m"
    /\ orm' = [orm EXCEPT !.obj = addOneToManyRelations(orm.obj, orm.models, orm.models[cur])]
    /\ cur' = cur + 1
    /\ pc' = IF cur = Len(orm.models) THEN "return" ELSE "m2m"
    /\ UNCHANGED <<ctl, tasks, dmmf, db, req, calls, res>>

\* line 59 and line 130: PrismaOrmObject = generatePrismaOrmObject()
GenerateReturns ==
    /\ pc = "return"
    /\ orm' = [orm EXCEPT !.null = FALSE]
    /\ pc' = "ready"
    /\ UNCHANGED <<ctl, tasks, dmmf, cur, db, req, calls, res>>

RECURSIVE RelationsLoop(_, _, _)
RelationsLoop(obj, models, i) ==
    IF i > Len(models) THEN obj
    ELSE RelationsLoop(addOneToManyRelations(addManyToManyRelations(obj, models, models[i]), models, models[i]),
                       models, i + 1)

\* lines 31-60, the whole function
generatePrismaOrmObject(d) ==
    IF ~d.present THEN NullOrm
    ELSE LET models == [i \in DOMAIN d.models |-> LowerFirst(d.models[i].name)]
         IN [null |-> FALSE, models |-> models,
             obj |-> RelationsLoop(BuildFields(d.models), models, 1)]

----------------------------------------------------------------------------
(* Schemas.                                                                *)

RECURSIVE Pick(_, _, _)
\* the subsequence of seq at the indexes in S
Pick(seq, S, i) ==
    IF i > Len(seq) THEN <<>>
    ELSE (IF i \in S THEN <<seq[i]>> ELSE <<>>) \o Pick(seq, S, i + 1)

Field(n, t) == [name |-> n, type |-> t]

\* the fields a model of the pair (a, b) may declare for the inference
PairFields(a, b) ==
    << Field(LowerFirst(pluralize(LowerFirst(a))), a),
       Field(LowerFirst(pluralize(LowerFirst(b))), b),
       Field("id" \o a, "Int"),
       Field("id" \o b, "Int"),
       Field("name", "String") >>

OrmModelNames == {"User", "Team", "Person"}

OrmSchemas ==
    {[present |-> TRUE,
      models |-> << [name |-> a, fields |-> Pick(PairFields(a, b), S, 1)],
                    [name |-> b, fields |-> Pick(PairFields(a, b), T, 1)] >>] :
        <<a, b, S, T>> \in {q \in OrmModelNames \X OrmModelNames \X (SUBSET (1..5)) \X (SUBSET (1..5)) :
                              q[1] # q[2]}}

NoDmmf == [present |-> FALSE, models |-> <<>>]

EmptyDb == [related |-> {}]

InitOrm ==
    /\ dmmf \in OrmSchemas \cup {NoDmmf}
    /\ orm = NullOrm
    /\ pc = "load"
    /\ cur = 0
    /\ db = EmptyDb
    /\ req = NoRequest
    /\ calls = <<>>
    /\ res = NoResult
    /\ ctl = NoController
    /\ tasks = NoTasks

NextOrm ==
    \/ GenerateThrows
    \/ GenerateFields
    \/ AddManyToMany
    \/ AddOneToMany
    \/ GenerateReturns

SpecOrm == InitOrm /\ [][NextOrm]_vars

----------------------------------------------------------------------------
(* JavaScript values of payloads and identifiers.                          *)
(* k is the kind: "num", "nan", "str", "arr" (array of items), "one"       *)
(* ({connect: {id}}) or "many" ({connect: [...], disconnect: [...]}).      *)

Val(k, n, s, items, connect, disconnect, hasDisconnect) ==
    [k |-> k, n |-> n, s |-> s, items |-> items,
     connect |-> connect, disconnect |-> disconnect, hasDisconnect |-> hasDisconnect]

Num(n) == Val("num", n, <<>>, <<>>, <<>>, <<>>, FALSE)
NaN == Val("nan", 0, <<>>, <<>>, <<>>, <<>>, FALSE)
Str(s) == Val("str", 0, s, <<>>, <<>>, <<>>, FALSE)
Arr(items) == Val("arr", 0, <<>>, items, <<>>, <<>>, FALSE)
\* an array element: a raw id (obj = FALSE) or an object carrying the id
Item(obj, v) == [obj |-> obj, v |-> v]

Digits == <<"0", "1", "2", "3", "4", "5", "6", "7", "8", "9">>
IsDigit(c) == \E d \in DOMAIN Digits : Digits[d] = c
DigitValue(c) == (CHOOSE d \in DOMAIN Digits : Digits[d] = c) - 1

RECURSIVE DigitPrefix(_, _, _)
\* the value of the longest prefix of digits of s from position i on
DigitPrefix(s, i, acc) ==
    IF i > Len(s) \/ ~IsDigit(s[i]) THEN acc
    ELSE DigitPrefix(s, i + 1, acc * 10 + DigitValue(s[i]))

\* String(n) for a non-negative integer
RECURSIVE ToChars(_)
ToChars(n) == IF n < 10 THEN <<Digits[n + 1]>> ELSE ToChars(n \div 10) \o <<Digits[(n % 10) + 1]>>

\* parseInt(v, 10): the leading digits of the string form, NaN when there are none
parseInt(v) ==
    CASE v.k = "num" -> v
      [] v.k = "str" -> IF Len(v.s) > 0 /\ IsDigit(v.s[1]) THEN Num(DigitPrefix(v.s, 1, 0)) ELSE NaN
      [] v.k = "arr" -> IF Len(v.items) > 0 /\ ~v.items[1].obj
                        THEN (IF v.items[1].v.k = "num" THEN v.items[1].v
                              ELSE IF v.items[1].v.k = "str" /\ Len(v.items[1].v.s) > 0 /\ IsDigit(v.items[1].v.s[1])
                                   THEN Num(DigitPrefix(v.items[1].v.s, 1, 0)) ELSE NaN)
                        ELSE NaN
      [] OTHER -> NaN

isNaN(v) == v.k = "nan"

\* !!v for a defined value
Truthy(v) ==
    CASE v.k = "num" -> v.n # 0
      [] v.k = "nan" -> FALSE
      [] v.k = "str" -> Len(v.s) > 0
      [] OTHER -> TRUE

\* !!data[key]
TruthyAt(data, key) == key \in DOMAIN data /\ Truthy(data[key])

\* the object with the given <<key, value>> pairs
Obj(pairs) == [k \in {q[1] : q \in pairs} |-> (CHOOSE q \in pairs : q[1] = k)[2]]

\* data[key] = v
Put(data, key, v) == [x \in DOMAIN data \cup {key} |-> IF x = key THEN v ELSE data[x]]

\* delete data[key]
Delete(data, key) == [x \in DOMAIN data \ {key} |-> data[x]]

ConnectOne(id) == Val("one", 0, <<>>, <<>>, <<id>>, <<>>, FALSE)
ConnectMany(connect, disconnect) ==
    Val("many", 0, <<>>, <<>>, connect, disconnect, Len(disconnect) > 0)

----------------------------------------------------------------------------
(* PrimateService: helpers.                                                *)

Ok(value) == [status |-> "ok", value |-> value]
Error(message) == [status |-> "error", value |-> message]

\* PrismaOrmObject[model], undefined for an unknown model
KnownModel(model) == ~orm.null /\ model \in DOMAIN orm.obj

RECURSIVE SanitizeLoop(_, _, _)
\* lines 486-492: every entry of the payload whose key is not an own property
\* of the model object is deleted from the payload
SanitizeLoop(data, entries, model) ==
    IF entries = {} THEN data
    ELSE LET field == CHOOSE x \in entries : TRUE
         IN SanitizeLoop(IF ~HasKey(orm.obj[model], field) THEN Delete(data, field) ELSE data,
                         entries \ {field}, model)

RECURSIVE SanitizeLoopSkipping(_, _, _, _)
\* the loop run over the live payload: the entry after a deleted one is passed over
SanitizeLoopSkipping(data, entries, model, skip) ==
    IF entries = {} THEN data
    ELSE LET field == CHOOSE x \in entries : TRUE
             drop == ~skip /\ ~HasKey(orm.obj[model], field)
         IN SanitizeLoopSkipping(IF drop THEN Delete(data, field) ELSE data,
                                 entries \ {field}, model, drop)

sanitizeDataSkipping(data, model) == SanitizeLoopSkipping(data, DOMAIN data, model, FALSE)

\* lines 471-495, for a payload object and a model the metadata knows
sanitizeData(data, model) == SanitizeLoop(data, DOMAIN data, model)

----------------------------------------------------------------------------
(* The storage backend as the service sees it: every call is recorded.     *)

BackendCall(op, model, where, data, skip, take, result) ==
    [op |-> op, model |-> model, where |-> where, data |-> data, skip |-> skip, take |-> take,
     result |-> result]

\* options.searchField of a service call: not given ("none"), one field name
\* ("string") or an array of field names ("array")
Options(kind, fields) == [kind |-> kind, fields |-> fields]
NoOptions == Options("none", <<>>)

RequestWith(op, model, id, data, query, options) ==
    [op |-> op, model |-> model, id |-> id, data |-> data, query |-> query, options |-> options]

\* a call made without options
Request(op, model, id, data, query) == RequestWith(op, model, id, data, query, NoOptions)

\* the module is loaded and no service call is under way
Idle == pc = "ready" /\ req = NoRequest

\* the caller has taken the outcome of the call
Return ==
    /\ pc = "ready"
    /\ req # NoRequest
    /\ req' = NoRequest
    /\ calls' = <<>>
    /\ res' = NoResult
    /\ UNCHANGED <<ctl, tasks, dmmf, orm, pc, cur, db>>

----------------------------------------------------------------------------
(* PrimateService.create, lines 28-90 (no options).                        *)

RECURSIVE MapConnectByFirst(_, _)
\* the kind of the first element decides for all: a raw id among objects has no
\* id property, an object among raw ids is no number
MapConnectByFirst(items, i) ==
    IF i > Len(items) THEN <<>>
    ELSE <<IF items[i].obj = items[1].obj THEN parseInt(items[i].v) ELSE NaN>>
         \o MapConnectByFirst(items, i + 1)

RECURSIVE MapConnect(_, _)
\* lines 59-63: one {id: parseInt(...)} per element, objects by their id
MapConnect(items, i) ==
    IF i > Len(items) THEN <<>>
    ELSE <<parseInt(items[i].v)>> \o MapConnect(items, i + 1)

\* the owning field left in the payload
CreateOneToManyKeepField(data, rd) ==
    IF rd.type = "one-to-many" /\ TruthyAt(data, rd.field)
    THEN Put(data, rd.model, ConnectOne(parseInt(data[rd.field])))
    ELSE data

\* lines 46-54: the owning field becomes a connect on the target model's key
CreateOneToMany(data, rd) ==
    IF rd.type = "one-to-many" /\ TruthyAt(data, rd.field)
    THEN Delete(Put(data, rd.model, ConnectOne(parseInt(data[rd.field]))), rd.field)
    ELSE data

\* lines 56-66: an array at the plural field becomes a connect list
CreateManyToMany(data, rd) ==
    IF rd.type = "many-to-many" /\ TruthyAt(data, rd.plural) /\ data[rd.plural].k = "arr"
    THEN Put(data, rd.plural, ConnectMany(MapConnect(data[rd.plural].items, 1), <<>>))
    ELSE data

RECURSIVE CreateRelations(_, _, _)
\* lines 45-67: Object.entries(relations), in insertion order
CreateRelations(data, entry, i) ==
    IF i > Len(entry.relOrder) THEN data
    ELSE LET rd == entry.relations[entry.relOrder[i]]
         IN CreateRelations(CreateManyToMany(CreateOneToMany(data, rd), rd), entry, i + 1)

\* lines 40-71: the data handed to prisma[model].create
CreateData(data, model) ==
    LET entry == orm.obj[model]
        resolved == IF entry.hasRelations THEN CreateRelations(data, entry, 1) ELSE data
    IN sanitizeData(resolved, model)

Create(modelArg, data) ==
    /\ Idle
    /\ req' = Request("create", modelArg, <<>>, data, <<>>)
    /\ LET model == LowerFirst(modelArg)
       IN IF ~KnownModel(model)
          THEN \* getORMObject throws (line 40); the catch rethrows (line 88)
               /\ calls' = <<>>
               /\ res' = Error("Error creating")
          ELSE /\ calls' = <<BackendCall("create", model, <<>>, CreateData(data, model), 0, 0, <<>>)>>
               /\ res' = Ok(<<>>)
    /\ UNCHANGED <<ctl, tasks, dmmf, orm, pc, cur, db>>

----------------------------------------------------------------------------
(* PrimateService.resolveId, resolveWhere: lines 637-659, 579-607.         *)
(* A thrown error is [thrown |-> TRUE], a returned value [thrown |-> FALSE, *)
(* value |-> ...].                                                         *)

Thrown(message) == [thrown |-> TRUE, value |-> message]
Returned(value) == [thrown |-> FALSE, value |-> value]

\* orm.id: the declared type of the id field, undefined when there is none
IdType(model) == IF "id" \in DOMAIN orm.obj[model].fields THEN orm.obj[model].fields["id"] ELSE Undefined

\* the id always parsed, whatever the declared type of the id field
resolveIdAlwaysParsed(id, model) ==
    IF ~Truthy(id) THEN Thrown("ID is required to resolve.")
    ELSE IF ~KnownModel(model) THEN Thrown("Model not found in PrismaOrmObject.")
    ELSE IF isNaN(parseInt(id)) THEN Thrown("ID is not a valid integer.")
         ELSE Returned(parseInt(id))

resolveId(id, model) ==
    IF ~Truthy(id) THEN Thrown("ID is required to resolve.")
    ELSE IF ~KnownModel(model) THEN Thrown("Model not found in PrismaOrmObject.")
    ELSE IF IdType(model) = "Int"
         THEN (IF isNaN(parseInt(id)) THEN Thrown("ID is not a valid integer.")
               ELSE Returned(parseInt(id)))
         ELSE Returned(id)

resolveWhere(id, model) ==
    IF ~Truthy(id) THEN Thrown("ID is required to resolve where clause.")
    ELSE IF orm.null THEN Thrown("TypeError")
    ELSE IF ~KnownModel(model) THEN Thrown("Model not found in PrismaOrmObject.")
    ELSE IF isNaN(parseInt(id))
         THEN (IF "uid" \in DOMAIN orm.obj[model].fields
               THEN Returned(Obj({<<"uid", id>>}))
               ELSE Thrown("Model does not have a uid field."))
         ELSE LET r == resolveId(id, model)
              IN IF r.thrown THEN r ELSE Returned(Obj({<<"id", r.value>>}))

----------------------------------------------------------------------------
(* PrimateService.update, lines 105-214 (options.searchField or none).      *)

\* e === element.id for a payload value e and a stored numeric id
StrictEquals(v, id) == v.k = "num" /\ v.n = id

\* Array.prototype.find over the payload's raw elements: the element found, if any
FoundRaw(items, id) == {i \in DOMAIN items : ~items[i].obj /\ StrictEquals(items[i].v, id)}

\* find over the payload's objects, compared by their id property
FoundObject(items, id) == {i \in DOMAIN items : items[i].obj /\ StrictEquals(items[i].v, id)}

RECURSIVE ToDisconnect(_, _, _, _)
\* lines 156-161 and 175-180: the stored elements that find() does not find, in
\* stored order; a found raw element that is 0 counts as not found
ToDisconnect(stored, items, byObject, i) ==
    IF i > Len(stored) THEN <<>>
    ELSE LET found == IF byObject THEN FoundObject(items, stored[i]) # {}
                      ELSE \E j \in FoundRaw(items, stored[i]) : Truthy(items[j].v)
         IN (IF found THEN <<>> ELSE <<Num(stored[i])>>) \o ToDisconnect(stored, items, byObject, i + 1)

RECURSIVE MapConnectAs(_, _, _)
\* lines 164 and 184: item.id of every element, or every element itself
MapConnectAs(items, byObject, i) ==
    IF i > Len(items) THEN <<>>
    ELSE <<IF items[i].obj = byObject THEN parseInt(items[i].v) ELSE NaN>>
         \o MapConnectAs(items, byObject, i + 1)

\* the stored ids as the backend returns them, ascending
RECURSIVE Ascending(_)
Ascending(S) ==
    IF S = {} THEN <<>>
    ELSE LET m == CHOOSE x \in S : \A y \in S : x <= y
         IN <<m>> \o Ascending(S \ {m})

\* line 150: typeof data[plural][0] === 'object' && it has an id
FirstIsObject(items) == Len(items) > 0 /\ items[1].obj

\* only the ids that are not stored yet are connected
UpdateManyToManyConnectNew(data, rd, stored) ==
    LET items == data[rd.plural].items
        byObject == FirstIsObject(items)
        all == MapConnectAs(items, byObject, 1)
    IN Put(data, rd.plural,
           ConnectMany(SelectSeq(all, LAMBDA v : \A j \in DOMAIN stored : v # Num(stored[j])),
                       ToDisconnect(stored, items, byObject, 1)))

\* lines 137-190 for one relation, given the entity read at line 142
UpdateManyToMany(data, rd, stored) ==
    LET items == data[rd.plural].items
        byObject == FirstIsObject(items)
    IN Put(data, rd.plural,
           ConnectMany(MapConnectAs(items, byObject, 1), ToDisconnect(stored, items, byObject, 1)))

\* line 137-139: the relation is reconciled
Reconciles(data, rd) ==
    rd.type = "many-to-many" /\ TruthyAt(data, rd.plural) /\ data[rd.plural].k = "arr"

\* the two models of the schema in use
ModelA == IF Len(dmmf.models) >= 1 THEN dmmf.models[1].name ELSE "User"
ModelB == IF Len(dmmf.models) >= 2 THEN dmmf.models[2].name ELSE "Team"
PluralB == pluralize(LowerFirst(ModelB))
IdB == "id" \o ModelB

\* the one record of the first model that the backend stores; db.related is the
\* set of ids related to it through its field plural(B)
RecordId == 1

\* the record has not been deleted
RecordStored == "deleted" \notin DOMAIN db \/ ~db["deleted"]

\* prisma[model].findUnique({where: {id}, select: {[plural]: true}}): the related
\* ids of the record, or null
FindRelated(model, idValue) ==
    IF idValue = Num(RecordId) /\ Len(orm.models) > 0 /\ model = orm.models[1] /\ RecordStored
    THEN [null |-> FALSE, related |-> Ascending(db.related)]
    ELSE [null |-> TRUE, related |-> <<>>]

\* Identifier filters shared by get (lines 411-429) and update (lines 197-208).

\* the uid of the stored record
RecordUid == <<"a", "b", "c">>

\* the filter of one field on one value, as the backend takes it: "found",
\* "none", or "rejected" for a field the model lacks or a value of the wrong type
FindByField(model, key, v) ==
    LET fields == orm.obj[model].fields
    IN IF key \notin DOMAIN fields THEN "rejected"
       ELSE IF fields[key] = "Int"
            THEN (IF v.k # "num" THEN "rejected"
                  ELSE IF key = "id" /\ v.n = RecordId /\ model = orm.models[1] /\ RecordStored
                       THEN "found" ELSE "none")
            ELSE IF v.k # "str" THEN "rejected"
                 ELSE IF model # orm.models[1] \/ ~RecordStored THEN "none"
                 ELSE IF key = "id" /\ v.s = ToChars(RecordId) THEN "found"
                 ELSE IF key = "uid" /\ v.s = RecordUid THEN "found"
                 ELSE "none"

\* {OR: [...]}
OrOf(filters) == Obj({<<"OR", Val("or", 0, <<>>, filters, <<>>, <<>>, FALSE)>>})

\* where: undefined
NoWhere == Obj({})

\* prisma[model].findFirst({where}) for a filter on one field or an OR of such
\* filters; an OR of no filter selects nothing
FindFirst(model, where) ==
    LET key == CHOOSE k \in DOMAIN where : TRUE
    IN IF key # "OR" THEN FindByField(model, key, where[key])
       ELSE LET each == [i \in DOMAIN where[key].items |->
                            LET f == where[key].items[i]
                                k == CHOOSE x \in DOMAIN f : TRUE
                            IN FindByField(model, k, f[k])]
            IN IF \E i \in DOMAIN each : each[i] = "rejected" THEN "rejected"
               ELSE IF \E i \in DOMAIN each : each[i] = "found" THEN "found"
               ELSE "none"

\* options.searchField is truthy
HasSearchField(options) == options.kind \in {"string", "array"}

\* modelFields[field].type: the model object holds the name of the field's type,
\* a string, and a string has no property type; relations.type is the relation
\* to a model named type
TypeProperty(model, field) ==
    IF field = "relations" /\ orm.obj[model].hasRelations /\ "type" \in DOMAIN orm.obj[model].relations
    THEN "object" ELSE Undefined

\* lines 203 and 418: {[field]: type === 'Int' ? parseInt(id) : id}
SearchFilter(model, field, id) ==
    Obj({<<field, IF TypeProperty(model, field) = "Int" THEN parseInt(id) ELSE id>>})

RECURSIVE SearchFilters(_, _, _, _)
\* lines 415-419: the listed fields that are own properties of the model object,
\* each mapped to its filter, in the order of the list
SearchFilters(model, fields, id, i) ==
    IF i > Len(fields) THEN <<>>
    ELSE (IF HasKey(orm.obj[model], fields[i]) THEN <<SearchFilter(model, fields[i], id)>> ELSE <<>>)
         \o SearchFilters(model, fields, id, i + 1)

\* lines 411-429 without a resolveWhere hook: a string has no method filter
GetWhere(id, model, options) ==
    IF HasSearchField(options) /\ isNaN(parseInt(id))
    THEN IF options.kind = "string" THEN Thrown("TypeError")
         ELSE LET toSearch == SearchFilters(model, options.fields, id, 1)
              IN Returned(IF Len(toSearch) = 1 THEN toSearch[1] ELSE OrOf(toSearch))
    ELSE resolveWhere(id, model)

RECURSIVE UpdateRelations(_, _, _, _, _, _)
\* lines 126-191: Object.entries(relations) in insertion order; every reconciled
\* relation first reads the record (line 142) and fails on a missing record
UpdateRelations(data, id, model, entry, i, reads) ==
    IF i > Len(entry.relOrder) THEN [thrown |-> FALSE, data |-> data, reads |-> reads]
    ELSE LET rd == entry.relations[entry.relOrder[i]]
             d1 == CreateOneToMany(data, rd)
             where == Obj({<<"id", parseInt(id)>>})
             \* select: {[plural]: true}, kept in the data slot of the call
             entity == FindRelated(model, parseInt(id))
             read == BackendCall("findUnique", model, where, Obj({<<rd.plural, Num(1)>>}), 0, 0,
                                 entity.related)
         IN IF ~Reconciles(d1, rd)
            THEN UpdateRelations(d1, id, model, entry, i + 1, reads)
            ELSE IF entity.null
                 THEN [thrown |-> TRUE, data |-> d1, reads |-> Append(reads, read)]
                 ELSE UpdateRelations(UpdateManyToMany(d1, rd, entity.related), id, model,
                                      entry, i + 1, Append(reads, read))

\* the ids of a connect or disconnect list
IdSet(list) == {list[i].n : i \in DOMAIN list}

\* the relation fields of the model: those whose type is a model of the schema
IsRelationField(model, f) ==
    f \in DOMAIN orm.obj[model].fields /\ LowerFirst(orm.obj[model].fields[f]) \in DOMAIN orm.obj

\* prisma[model].update({where, data}): the backend rejects a where that selects
\* no record, an id that is no number and a relation field that holds anything
\* but directives; it applies connect, then disconnect, in the order of the keys
UpdateAccepted(model, where, data) ==
    /\ Len(orm.models) > 0 /\ model = orm.models[1]
    /\ RecordStored
    /\ \/ where = Obj({<<"id", Num(RecordId)>>})
       \/ where # NoWhere /\ "OR" \notin DOMAIN where /\ FindFirst(model, where) = "found"
    /\ \A f \in DOMAIN data : f \in DOMAIN orm.obj[model].fields
    /\ \A f \in DOMAIN data :
          IF IsRelationField(model, f)
          THEN /\ data[f].k \in {"one", "many"}
               /\ \A j \in DOMAIN data[f].connect : data[f].connect[j].k = "num"
          ELSE data[f].k \in {"num", "str"}

RelatedAfter(model, data) ==
    IF PluralB \in DOMAIN data /\ data[PluralB].k = "many"
    THEN (db.related \cup IdSet(data[PluralB].connect)) \ IdSet(data[PluralB].disconnect)
    ELSE db.related

\* String(options.searchField), the property key the field list coerces to
RECURSIVE Joined(_, _)
Joined(fields, i) ==
    IF i > Len(fields) THEN ""
    ELSE IF i = Len(fields) THEN fields[i]
         ELSE fields[i] \o "," \o Joined(fields, i + 1)

\* lines 197-208: the searchField is used as one property key
UpdateWhere(id, model, options) ==
    IF HasSearchField(options) /\ isNaN(parseInt(id))
    THEN LET key == Joined(options.fields, 1)
         IN IF HasKey(orm.obj[model], key)
            THEN Returned(SearchFilter(model, key, id))
            ELSE Returned(NoWhere)
    ELSE LET rid == resolveId(id, model)
         IN IF rid.thrown THEN rid ELSE Returned(Obj({<<"id", rid.value>>}))

UpdateWith(id, data, modelArg, options) ==
    /\ Idle
    /\ req' = RequestWith("update", modelArg, id, data, <<>>, options)
    /\ LET model == LowerFirst(modelArg)
       IN IF ~Truthy(id) \/ ~KnownModel(model)
          THEN \* lines 107 and 121-122
               /\ calls' = <<>>
               /\ res' = Error("update failed")
               /\ db' = db
          ELSE LET entry == orm.obj[model]
                   rel == IF entry.hasRelations
                          THEN UpdateRelations(data, id, model, entry, 1, <<>>)
                          ELSE [thrown |-> FALSE, data |-> data, reads |-> <<>>]
                   clean == sanitizeData(rel.data, model)
                   rw == UpdateWhere(id, model, options)
               IN IF rel.thrown \/ rw.thrown
                  THEN /\ calls' = rel.reads
                       /\ res' = Error("update failed")
                       /\ db' = db
                  ELSE LET where == rw.value
                       IN /\ calls' = Append(rel.reads, BackendCall("update", model, where, clean, 0, 0, <<>>))
                          /\ IF UpdateAccepted(model, where, clean)
                             THEN /\ res' = Ok(<<>>)
                                  /\ db' = [db EXCEPT !.related = RelatedAfter(model, clean)]
                             ELSE /\ res' = Error("backend error")
                                  /\ db' = db
    /\ UNCHANGED <<ctl, tasks, dmmf, orm, pc, cur>>

\* update(id, data, model)
Update(id, data, modelArg) == UpdateWith(id, data, modelArg, NoOptions)

----------------------------------------------------------------------------
(* Inputs of the service calls.                                            *)

MaxId == 3
MaxLen == 3

Ids == 1..MaxId

SeqsUpTo(S, n) == UNION {[1..k -> S] : k \in 0..n}

Optional(key, values) == {{}} \cup {{<<key, v>>} : v \in values}

\* the id n as the number n or as the string "n"
IdValue(n, asString) == IF asString THEN Str(ToChars(n)) ELSE Num(n)

\* arrays of raw ids and of objects carrying an id; the ids all numbers or all strings
IdArrays ==
    {Arr([i \in DOMAIN sq |-> Item(sq[i][1], IdValue(sq[i][2], asString))]) :
        <<sq, asString>> \in SeqsUpTo(BOOLEAN \X Ids, MaxLen) \X BOOLEAN}

ScalarPayloads ==
    {Obj(n \cup f \cup x \cup r) :
        <<n, f, x, r>> \in Optional("name", {Str(<<"A", "n", "n">>)})
                           \X Optional(IdB, {Num(5), Str(<<"5">>), Num(0)})
                           \X Optional("bogus", {Num(1)})
                           \X Optional("relations", {Str(<<"x">>)})}

ListPayloads == {Obj({<<PluralB, a>>}) : a \in IdArrays}

\* model A of the pair declares any of: plural(B), id<B>, the relation field
\* named after B, name; model B declares plural(A) or nothing
ServiceFieldsA(a, b) ==
    << Field(pluralize(LowerFirst(b)), b),
       Field("id" \o b, "Int"),
       Field(LowerFirst(b), b),
       Field("name", "String") >>

ServiceFieldsB(a, b) == << Field(pluralize(LowerFirst(a)), a) >>

PairSchemas(a, b) ==
    {[present |-> TRUE,
      models |-> << [name |-> a, fields |-> Pick(ServiceFieldsA(a, b), q[1], 1)],
                    [name |-> b, fields |-> Pick(ServiceFieldsB(a, b), q[2], 1)] >>] :
        q \in (SUBSET (1..4)) \X (SUBSET (1..1))}

\* Post and Tag, each declaring the other's plural
BlogSchema ==
    [present |-> TRUE,
     models |-> << [name |-> "Post", fields |-> <<Field("id", "Int"), Field("title", "String"), Field("tags", "Tag")>>],
                   [name |-> "Tag", fields |-> <<Field("id", "Int"), Field("posts", "Post")>>] >>]

CreateSchemas == PairSchemas("User", "Team") \cup {BlogSchema}

CreateCall ==
    /\ Idle
    /\ \/ \E data \in ScalarPayloads : \E m \in {ModelA, LowerFirst(ModelA)} : Create(m, data)
       \/ \E data \in ListPayloads : Create(ModelA, data)
       \/ Create("Ghost", Obj({}))

InitCreate ==
    /\ dmmf \in CreateSchemas \cup {NoDmmf}
    /\ orm = NullOrm
    /\ pc = "load"
    /\ cur = 0
    /\ db = EmptyDb
    /\ req = NoRequest
    /\ calls = <<>>
    /\ res = NoResult
    /\ ctl = NoController
    /\ tasks = NoTasks

NextCreate ==
    \/ GenerateThrows
    \/ GenerateFields
    \/ AddManyToMany
    \/ AddOneToMany
    \/ GenerateReturns
    \/ CreateCall
    \/ Return

SpecCreate == InitCreate /\ [][NextCreate]_vars

----------------------------------------------------------------------------
(* PrimateService.get, lines 398-459 (options.searchField or no options).   *)

\* lines 438-447: one include entry per fetch-<name> key whose name the model has
FetchInclude(model, query) == {n \in query.fetch : HasKey(orm.obj[model], n)}

GetWith(id, modelArg, query, options) ==
    /\ Idle
    /\ req' = RequestWith("get", modelArg, id, <<>>, query, options)
    /\ LET model == LowerFirst(modelArg)
       IN IF ~Truthy(id) \/ ~KnownModel(model) \/ GetWhere(id, model, options).thrown
          THEN \* lines 400, 406-407, 415 and 427
               /\ calls' = <<>>
               /\ res' = Error("get failed")
          ELSE LET where == GetWhere(id, model, options)
                   found == FindFirst(model, where.value)
               IN /\ calls' = <<BackendCall("findFirst", model, where.value,
                                            FetchInclude(model, query), 0, 0, found)>>
                  /\ res' = IF found = "rejected" THEN Error("Error retrieving") ELSE Ok(found)
    /\ UNCHANGED <<ctl, tasks, dmmf, orm, pc, cur, db>>

\* get(id, model, query)
Get(id, modelArg, query) == GetWith(id, modelArg, query, NoOptions)

\* the first model with or without an id (Int or String) and a uid
GetSchemas ==
    {[present |-> TRUE,
      models |-> << [name |-> "User",
                     fields |-> q[1] \o q[2] \o <<Field("name", "String"), Field("teams", "Team")>>],
                    [name |-> "Team", fields |-> <<Field("id", "Int"), Field("users", "User")>>] >>] :
        q \in {<<>>, <<Field("id", "Int")>>, <<Field("id", "String")>>}
              \X {<<>>, <<Field("uid", "String")>>}}

\* identifiers as they arrive from the route: "<RecordId>", "42", "0", "",
\* "abc", "abc-slug" and "7up"
GetIds ==
    {Str(ToChars(RecordId)), Str(<<"4", "2">>), Str(<<"0">>), Str(<<>>), Str(RecordUid),
     Str(<<"a", "b", "c", "-", "s", "l", "u", "g">>), Str(<<"7", "u", "p">>)}

GetCall ==
    /\ Idle
    /\ \E id \in GetIds : \E m \in {ModelA, LowerFirst(ModelA), "Ghost"} :
         \E f \in SUBSET {"teams", "bogus"} : Get(id, m, [fetch |-> f])

InitGet ==
    /\ dmmf \in GetSchemas \cup {NoDmmf}
    /\ orm = NullOrm
    /\ pc = "load"
    /\ cur = 0
    /\ db = EmptyDb
    /\ req = NoRequest
    /\ calls = <<>>
    /\ res = NoResult
    /\ ctl = NoController
    /\ tasks = NoTasks

NextGet ==
    \/ GenerateThrows
    \/ GenerateFields
    \/ AddManyToMany
    \/ AddOneToMany
    \/ GenerateReturns
    \/ GetCall
    \/ Return

SpecGet == InitGet /\ [][NextGet]_vars

----------------------------------------------------------------------------
(* PrimateService.all, lines 256-382 (options = {}).                       *)

\* line 263: the defaults of the destructured query
DefaultPage == 1
DefaultLimit == 100
DefaultBy == "id"
DefaultOrder == <<"d", "e", "s", "c">>

\* a destructured query parameter: the default applies when the key is absent
Param(query, key, default) == IF key \in DOMAIN query THEN query[key] ELSE default

\* s.includes(c)
Includes(s, c) == \E i \in DOMAIN s : s[i] = c

RECURSIVE SplitFrom(_, _, _)
SplitFrom(s, sep, piece) ==
    IF s = <<>> THEN <<piece>>
    ELSE IF Head(s) = sep THEN <<piece>> \o SplitFrom(Tail(s), sep, <<>>)
         ELSE SplitFrom(Tail(s), sep, Append(piece, Head(s)))

\* s.split(sep)
Split(s, sep) == SplitFrom(s, sep, <<>>)

\* lines 302-317: {in: [...]} for a comma, {has: [...]} for a pipe, the value otherwise
FieldFilter(v) ==
    IF Includes(v.s, ",") THEN [kind |-> "in", values |-> Split(v.s, ",")]
    ELSE IF Includes(v.s, "|") THEN [kind |-> "has", values |-> Split(v.s, "|")]
         ELSE [kind |-> "equals", values |-> <<v.s>>]

\* lines 299-319: one filter per own property of the model object that the
\* query carries with a truthy value
QueryWhere(model, query) ==
    [f \in {x \in DOMAIN query : HasKey(orm.obj[model], x) /\ Truthy(query[x])} |->
        FieldFilter(query[f])]

\* line 303: query[field].includes is called on every truthy value of an own
\* property of the model object; a number has no method includes
FilterThrows(model, query) ==
    \E x \in DOMAIN query : HasKey(orm.obj[model], x) /\ Truthy(query[x]) /\ query[x].k # "str"

\* line 342, mutated: the page itself is taken as the number of pages to skip
SkipWholePages(page, limit) ==
    LET p == parseInt(page)
        l == parseInt(limit)
    IN IF isNaN(p) \/ isNaN(l) THEN NaN ELSE Num(p.n * l.n)

\* line 342: (parseInt(page) - 1) * parseInt(limit)
Skip(page, limit) ==
    LET p == parseInt(page)
        l == parseInt(limit)
    IN IF isNaN(p) \/ isNaN(l) THEN NaN ELSE Num((p.n - 1) * l.n)

\* line 343: parseInt(limit)
Take(limit) == parseInt(limit)

\* the backend accepts a filter of strings on String fields only
WhereAccepted(model, where) ==
    \A f \in DOMAIN where :
        /\ f \in DOMAIN orm.obj[model].fields
        /\ orm.obj[model].fields[f] = "String"
        /\ where[f].kind \in {"equals", "in"}

Matches(row, where) ==
    \A f \in DOMAIN where : \E i \in DOMAIN where[f].values : where[f].values[i] = row[f]

Matching(rows, where) == SelectSeq(rows, LAMBDA r : Matches(r, where))

Reverse(seq) == [i \in 1 .. Len(seq) |-> seq[Len(seq) + 1 - i]]

Min(a, b) == IF a < b THEN a ELSE b

\* prisma[model].count({where, orderBy})
Count(model, rows, where) ==
    IF WhereAccepted(model, where) THEN Len(Matching(rows, where)) ELSE -1

PagingAccepted(order, skip, take) ==
    /\ order \in {<<"a", "s", "c">>, DefaultOrder}
    /\ skip.k = "num" /\ skip.n >= 0
    /\ take.k = "num" /\ take.n >= 0

\* prisma[model].findMany({where, orderBy: {id: order}, skip, take}); the rows
\* are stored in ascending order of id
FindMany(rows, where, order, skip, take) ==
    LET hits == Matching(rows, where)
        sorted == IF order = DefaultOrder THEN Reverse(hits) ELSE hits
    IN SubSeq(sorted, skip.n + 1, Min(Len(sorted), skip.n + take.n))

\* the count parameter is never looked at
CountOnlyIgnored(query) == FALSE

\* line 334: if(countQuery)
CountOnly(query) == TruthyAt(query, "count")

ListCall(op, model, where, by, order, skip, take, result) ==
    [op |-> op, model |-> model, where |-> where, by |-> by, order |-> order,
     skip |-> skip, take |-> take, include |-> {}, result |-> result]

\* the fetch-<name> parameters of a list query, in the order of the query string
FetchParams(names) == Val("fetch", 0, <<>>, names, <<>>, <<>>, FALSE)
FetchNames(query) == IF "fetch-" \in DOMAIN query THEN query["fetch-"].items ELSE <<>>

\* lines 363-369: Object.keys(query).find gives the first fetch-<name> key only;
\* its name is included when it is an own property of the model object
AllInclude(model, query) ==
    IF FetchNames(query) # <<>> /\ HasKey(orm.obj[model], FetchNames(query)[1])
    THEN {FetchNames(query)[1]} ELSE {}

\* the backend calls and the outcome of all(model, query) over the stored rows
AllOutcome(model, query, rows) ==
    IF ~KnownModel(model)
    THEN \* line 300: Object.entries of undefined
         [calls |-> <<>>, res |-> Error("TypeError")]
    ELSE IF FilterThrows(model, query)
    THEN \* line 303
         [calls |-> <<>>, res |-> Error("TypeError")]
    ELSE LET page == Param(query, "page", Num(DefaultPage))
             limit == Param(query, "limit", Num(DefaultLimit))
             by == Param(query, "by", Str(DefaultBy)).s
             order == Param(query, "order", Str(DefaultOrder)).s
             where == QueryWhere(model, query)
             totalCount == Count(model, rows, where)
             count == ListCall("count", model, where, by, order, NaN, NaN, totalCount)
             skip == Skip(page, limit)
             take == Take(limit)
         IN IF totalCount < 0 \/ by # DefaultBy \/ order \notin {<<"a", "s", "c">>, DefaultOrder}
            THEN \* line 332: the rejection of count is not caught
                 [calls |-> <<count>>, res |-> Error("count rejected")]
            ELSE IF CountOnly(query)
            THEN \* line 334
                 [calls |-> <<count>>, res |-> Ok([data |-> <<>>, count |-> totalCount])]
            ELSE IF ~PagingAccepted(order, skip, take)
            THEN \* lines 377-380
                 [calls |-> <<count, [ListCall("findMany", model, where, by, order, skip, take, "rejected")
                                        EXCEPT !.include = AllInclude(model, query)]>>,
                  res |-> Error("Error retrieving")]
            ELSE LET data == FindMany(rows, where, order, skip, take)
                 IN [calls |-> <<count, [ListCall("findMany", model, where, by, order, skip, take, data)
                                           EXCEPT !.include = AllInclude(model, query)]>>,
                     res |-> Ok([data |-> data, count |-> totalCount])]

All(model, query) ==
    /\ Idle
    /\ req' = Request("all", model, Undefined, <<>>, query)
    /\ calls' = AllOutcome(model, query, db.rows).calls
    /\ res' = AllOutcome(model, query, db.rows).res
    /\ UNCHANGED <<ctl, tasks, dmmf, orm, pc, cur, db>>

MaxPage == 3
MaxLimit == 2
MaxRows == 3

\* one model, with or without fields named like the paging parameters
AllSchemas ==
    {[present |-> TRUE,
      models |-> << [name |-> "Post",
                     fields |-> <<Field("id", "Int"), Field("title", "String")>> \o q[1] \o q[2]] >>] :
        q \in {<<>>, <<Field("page", "String")>>} \X {<<>>, <<Field("limit", "Int")>>}}

\* stored rows, in ascending order of id
RowKinds == {<<"a", "1">>, <<"b", "1">>, <<"a", "2">>}
StoredRows ==
    UNION {{[i \in 1 .. n |-> [id |-> i, title |-> <<k[i][1]>>, page |-> <<k[i][2]>>]] :
              k \in [1 .. n -> RowKinds]} : n \in 0 .. MaxRows}

\* a parameter the query string does not carry
Absent == Val("absent", 0, <<>>, <<>>, <<>>, <<>>, FALSE)

\* the query with the given optional parameters
Query(page, limit, title, order, count) ==
    LET given == {q \in {<<"page", page>>, <<"limit", limit>>, <<"title", title>>,
                         <<"order", order>>, <<"count", count>>} : q[2] # Absent}
    IN Obj(given)

PageParams == {Absent} \cup {Str(ToChars(n)) : n \in 1 .. MaxPage}
LimitParams == {Absent} \cup {Str(ToChars(n)) : n \in 1 .. MaxLimit}
TitleParams == {Absent, Str(<<>>), Str(<<"a">>), Str(<<"a", ",", "b">>), Str(<<"a", "|", "b">>)}
OrderParams == {Absent, Str(<<"a", "s", "c">>)}
CountParams == {Absent, Str(<<>>), Str(<<"0">>)}

AllCall ==
    /\ Idle
    /\ \E m \in {"post", "Post"} :
         \E p \in PageParams : \E l \in LimitParams : \E t \in TitleParams :
           \E o \in OrderParams : \E c \in CountParams :
             All(m, Query(p, l, t, o, c))

InitAll ==
    /\ dmmf \in AllSchemas
    /\ orm = NullOrm
    /\ pc = "load"
    /\ cur = 0
    /\ db \in {[related |-> {}, rows |-> r] : r \in StoredRows}
    /\ req = NoRequest
    /\ calls = <<>>
    /\ res = NoResult
    /\ ctl = NoController
    /\ tasks = NoTasks

NextAll ==
    \/ GenerateFields
    \/ AddManyToMany
    \/ AddOneToMany
    \/ GenerateReturns
    \/ AllCall
    \/ Return

SpecAll == InitAll /\ [][NextAll]_vars

----------------------------------------------------------------------------
(* PrimateService.sanitizeData applied to a payload, and again to its      *)
(* result.                                                                 *)

\* the payload's unknown keys are deleted from the model object too
SanitizeTouchingModel(data, model) ==
    /\ Idle
    /\ req' = Request("sanitizeData", model, Undefined, data, <<>>)
    /\ calls' = <<>>
    /\ res' = IF ~KnownModel(model)
              THEN Error("Model not found in PrismaOrmObject.")
              ELSE Ok(sanitizeData(data, model))
    /\ orm' = IF ~KnownModel(model) THEN orm
              ELSE [orm EXCEPT !.obj[model].fields =
                       [f \in DOMAIN @ \ {k \in DOMAIN @ : k \notin DOMAIN data} |-> @[f]]]
    /\ UNCHANGED <<ctl, tasks, dmmf, pc, cur, db>>

Sanitize(data, model) ==
    /\ Idle
    /\ req' = Request("sanitizeData", model, Undefined, data, <<>>)
    /\ calls' = <<>>
    /\ res' = IF ~KnownModel(model)
              THEN \* lines 480-483
                   Error("Model not found in PrismaOrmObject.")
              ELSE Ok(sanitizeData(data, model))
    /\ UNCHANGED <<ctl, tasks, dmmf, orm, pc, cur, db>>

\* the sanitized payload is sanitized once more; calls keeps the first result
SanitizeAgain ==
    /\ pc = "ready"
    /\ req.op = "sanitizeData"
    /\ res.status = "ok"
    /\ calls = <<>>
    /\ calls' = <<res.value>>
    /\ res' = Ok(sanitizeData(res.value, req.model))
    /\ UNCHANGED <<ctl, tasks, dmmf, orm, pc, cur, db, req>>

\* payload keys: fields of the model, the relations key and unknown names
SanitizeKeys == {"id", "name", "teams", "relations", "bogus", "extra"}
SanitizeValues == {Num(RecordId), Str(RecordUid)}
SanitizePayloads == UNION {[K -> SanitizeValues] : K \in SUBSET SanitizeKeys}

SanitizeCall ==
    /\ Idle
    /\ \E data \in SanitizePayloads : \E m \in {"user", "ghost"} : Sanitize(data, m)

InitSanitize ==
    /\ dmmf \in GetSchemas \cup {NoDmmf}
    /\ orm = NullOrm
    /\ pc = "load"
    /\ cur = 0
    /\ db = EmptyDb
    /\ req = NoRequest
    /\ calls = <<>>
    /\ res = NoResult
    /\ ctl = NoController
    /\ tasks = NoTasks

NextSanitize ==
    \/ GenerateThrows
    \/ GenerateFields
    \/ AddManyToMany
    \/ AddOneToMany
    \/ GenerateReturns
    \/ SanitizeCall
    \/ SanitizeAgain
    \/ Return

SpecSanitize == InitSanitize /\ [][NextSanitize]_vars

MaxRelatedId == 4

RelatedIds == 1..MaxRelatedId

\* arrays of raw ids or of objects carrying an id; the ids numbers or strings
DesiredArrays ==
    {LET sq == q[1] IN Arr([i \in DOMAIN sq |-> Item(q[2], IdValue(sq[i], q[3]))]) :
        q \in SeqsUpTo(RelatedIds, MaxLen) \X BOOLEAN \X BOOLEAN}

\* Post without the counterpart on Tag: no relation is inferred
BlogSchemaOneSided ==
    [present |-> TRUE,
     models |-> << [name |-> "Post", fields |-> <<Field("id", "Int"), Field("title", "String"), Field("tags", "Tag")>>],
                   [name |-> "Tag", fields |-> <<Field("id", "Int")>>] >>]

UpdateSchemas == {BlogSchema, BlogSchemaOneSided}

UpdateCall ==
    /\ Idle
    /\ \/ \E a \in DesiredArrays : Update(Str(ToChars(RecordId)), Obj({<<PluralB, a>>}), ModelA)
       \/ \E id \in {Str(ToChars(RecordId)), Str(<<"7">>), Str(<<>>)} :
            \E data \in {Obj({<<"title", Str(<<"T">>)>>}),
                         Obj({<<"title", Str(<<"T">>)>>, <<"bogus", Num(1)>>, <<"relations", Str(<<"x">>)>>}),
                         Obj({<<"title", Str(<<"T">>)>>, <<PluralB, Arr(<<Item(FALSE, Num(1))>>)>>})} :
            \E m \in {ModelA, "Ghost"} : Update(id, data, m)

InitUpdate ==
    /\ dmmf \in UpdateSchemas
    /\ orm = NullOrm
    /\ pc = "load"
    /\ cur = 0
    /\ db \in {[related |-> S] : S \in SUBSET RelatedIds}
    /\ req = NoRequest
    /\ calls = <<>>
    /\ res = NoResult
    /\ ctl = NoController
    /\ tasks = NoTasks

NextUpdate ==
    \/ GenerateFields
    \/ AddManyToMany
    \/ AddOneToMany
    \/ GenerateReturns
    \/ UpdateCall
    \/ Return

SpecUpdate == InitUpdate /\ [][NextUpdate]_vars

----------------------------------------------------------------------------
(* PrimateService.delete, lines 225-244, and updateMetas, lines 531-569.   *)

\* prisma[model].delete({where}) removes the record, and its row if rows are stored
Deleted ==
    LET gone == Put(db, "deleted", TRUE)
    IN IF "rows" \in DOMAIN db
       THEN Put(gone, "rows", SelectSeq(db["rows"], LAMBDA r : r.id # RecordId))
       ELSE gone

ServiceDelete(id, modelArg) ==
    /\ Idle
    /\ req' = Request("delete", modelArg, id, <<>>, <<>>)
    /\ LET model == LowerFirst(modelArg)
           where == resolveWhere(id, model)
       IN IF ~Truthy(id) \/ ~KnownModel(model) \/ where.thrown
          THEN \* lines 227, 233-236 and 239-243
               /\ calls' = <<>>
               /\ res' = Error("Error deleting")
               /\ db' = db
          ELSE LET found == FindFirst(model, where.value)
               IN /\ calls' = <<BackendCall("delete", model, where.value, <<>>, 0, 0, found)>>
                  /\ res' = IF found = "found" THEN Ok(found) ELSE Error("Error deleting")
                  /\ db' = IF found = "found" THEN Deleted ELSE db
    /\ UNCHANGED <<ctl, tasks, dmmf, orm, pc, cur>>

\* the stored metas: null or an object
NullMetas == [null |-> TRUE, map |-> <<>>]
Metas(map) == [null |-> FALSE, map |-> map]

\* the current keys give way to the new ones
MergeMetasKeepCurrent(current, metas) ==
    [k \in DOMAIN current \cup DOMAIN metas |-> IF k \in DOMAIN current THEN current[k] ELSE metas[k]]

\* lines 554-557: {...currentMetas.metas, ...metas}
MergeMetas(current, metas) ==
    [k \in DOMAIN current \cup DOMAIN metas |-> IF k \in DOMAIN metas THEN metas[k] ELSE current[k]]

UpdateMetas(id, metas, model) ==
    /\ Idle
    /\ req' = Request("updateMetas", model, id, metas, <<>>)
    /\ LET where == resolveWhere(id, model)
       IN IF ~Truthy(id) \/ where.thrown
          THEN \* lines 533-535, and 545 inside the try
               /\ calls' = <<>>
               /\ res' = Error("Error updating metadata")
               /\ db' = db
          ELSE LET found == IF "metas" \in DOMAIN orm.obj[model].fields
                            THEN FindFirst(model, where.value) ELSE "rejected"
                   read == BackendCall("findUnique", model, where.value, {"metas"}, 0, 0, found)
                   merged == MergeMetas(db["metas"].map, metas)
               IN IF found # "found"
                  THEN \* lines 549-551 and 565-568
                       /\ calls' = <<read>>
                       /\ res' = Error("Error updating metadata")
                       /\ db' = db
                  ELSE /\ calls' = <<read, BackendCall("update", model, where.value,
                                                       [metas |-> merged], 0, 0, "found")>>
                       /\ res' = Ok("found")
                       /\ db' = Put(db, "metas", Metas(merged))
    /\ UNCHANGED <<ctl, tasks, dmmf, orm, pc, cur>>

MaxMetaValue == 2
MetaKeys == {"a", "b"}
MetaMaps == UNION {[K -> 1 .. MaxMetaValue] : K \in SUBSET MetaKeys}

\* Post with and without the metas field
MetasSchemas ==
    {[present |-> TRUE,
      models |-> << [name |-> "Post",
                     fields |-> <<Field("id", "Int"), Field("title", "String")>> \o q] >>] :
        q \in {<<>>, <<Field("metas", "Json")>>}}

RouteIds == {Str(ToChars(RecordId)), Str(<<"7">>), Str(<<>>), Str(RecordUid)}

UpdateMetasCall ==
    /\ Idle
    /\ \E id \in RouteIds : \E P \in MetaMaps : \E m \in {"post", "Post"} : UpdateMetas(id, P, m)

DeleteCall ==
    /\ Idle
    /\ \E id \in RouteIds : \E m \in {"post", "Post", "Ghost"} : ServiceDelete(id, m)

InitMetas ==
    /\ dmmf \in MetasSchemas
    /\ orm = NullOrm
    /\ pc = "load"
    /\ cur = 0
    /\ db \in {[related |-> {}, title |-> <<"T">>, metas |-> M] :
                  M \in {NullMetas} \cup {Metas(map) : map \in MetaMaps}}
    /\ req = NoRequest
    /\ calls = <<>>
    /\ res = NoResult
    /\ ctl = NoController
    /\ tasks = NoTasks

NextMetas ==
    \/ GenerateFields
    \/ AddManyToMany
    \/ AddOneToMany
    \/ GenerateReturns
    \/ UpdateMetasCall
    \/ DeleteCall
    \/ Return

SpecMetas == InitMetas /\ [][NextMetas]_vars

----------------------------------------------------------------------------
(* PrimateController (utils.js, lines 160-578), one instance serving the   *)
(* requests of several users. A handler runs without interruption up to    *)
(* its next await; this.options is one object shared by all requests.      *)

Ops == {"create", "get", "update", "delete", "all", "updateMetas"}

\* no user recorded in the options
NoUser == 0

\* the authenticated users, one request each
Requests == {1, 2}

NoResponse == [status |-> 0, message |-> "", detail |-> ""]
Respond(status, message, detail) == [status |-> status, message |-> message, detail |-> detail]

NewTask(user) ==
    [op |-> "none", user |-> user, pc |-> "new", invoked |-> <<>>, backend |-> "none",
     response |-> NoResponse]

\* a service operation as it is invoked: which object, which operation, and the
\* user the options argument carries at that moment
Invocation(target, op, options) ==
    [target |-> target, op |-> op, idUser |-> options.idUser, user |-> options.user]

\* typeof this.service?.[op] === 'function'
IsFunction(op) == op \in ctl.service

\* the supplied service where it defines the operation, PrimateService otherwise
ServiceFor(op) == IF IsFunction(op) THEN "custom" ELSE "generic"

\* line 339: this.service?.get && this.service?.get === 'function' compares the
\* function itself with a string, which is never equal
ServiceForGet == IF IsFunction("get") /\ FALSE THEN "custom" ELSE "generic"

Begin(t, op, invocation) ==
    tasks' = [tasks EXCEPT ![t] = [@ EXCEPT !.op = op, !.pc = "call", !.invoked = <<invocation>>]]

\* lines 218-241: this.options.user is set, then the service is called with this.options
ControllerAll(t) ==
    /\ pc = "ready"
    /\ tasks[t].pc = "new"
    /\ ctl' = [ctl EXCEPT !.options.user = tasks[t].user]
    /\ Begin(t, "all", Invocation(ServiceFor("all"), "all", ctl'.options))
    /\ UNCHANGED <<dmmf, orm, pc, cur, db, req, calls, res>>

\* lines 286-300: the call gets a copy of this.options carrying the user's id
ControllerCreate(t) ==
    /\ pc = "ready"
    /\ tasks[t].pc = "new"
    /\ Begin(t, "create", Invocation(ServiceFor("create"), "create",
                                     [ctl.options EXCEPT !.idUser = tasks[t].user]))
    /\ UNCHANGED <<ctl, dmmf, orm, pc, cur, db, req, calls, res>>

\* lines 337-340
ControllerGet(t) ==
    /\ pc = "ready"
    /\ tasks[t].pc = "new"
    /\ Begin(t, "get", Invocation(ServiceForGet, "get", ctl.options))
    /\ UNCHANGED <<ctl, dmmf, orm, pc, cur, db, req, calls, res>>

\* lines 378-401: options is this.options itself; idUser is set on it and the
\* existing record is awaited
ControllerUpdate(t) ==
    /\ pc = "ready"
    /\ tasks[t].pc = "new"
    /\ ctl' = [ctl EXCEPT !.options.idUser = tasks[t].user]
    /\ tasks' = [tasks EXCEPT ![t] = [@ EXCEPT !.op = "update", !.pc = "get",
                    !.invoked = <<Invocation(ServiceFor("get"), "get", ctl'.options)>>]]
    /\ UNCHANGED <<dmmf, orm, pc, cur, db, req, calls, res>>

\* lines 403-416: the existing record has arrived (or not, or the read failed);
\* the update is called with the options object as it is now
ControllerUpdateFetched(t, old) ==
    /\ tasks[t].pc = "get"
    /\ tasks' = [tasks EXCEPT ![t] =
          CASE old = "none" -> [@ EXCEPT !.pc = "done", !.response = Respond(404, "Post not found", "")]
            [] old = "error" -> [@ EXCEPT !.pc = "done",
                                   !.response = Respond(400, "Error updating Post: ", "Error retrieving post")]
            [] OTHER -> [@ EXCEPT !.pc = "call",
                           !.invoked = Append(@, Invocation(ServiceFor("update"), "update", ctl.options))]]
    /\ UNCHANGED <<ctl, dmmf, orm, pc, cur, db, req, calls, res>>

\* lines 452-470
ControllerDelete(t) ==
    /\ pc = "ready"
    /\ tasks[t].pc = "new"
    /\ Begin(t, "delete", Invocation(ServiceFor("delete"), "delete", ctl.options))
    /\ UNCHANGED <<ctl, dmmf, orm, pc, cur, db, req, calls, res>>

\* lines 538-556: PrimateService.updateMetas, whatever the service object defines
ControllerUpdateMetas(t) ==
    /\ pc = "ready"
    /\ tasks[t].pc = "new"
    /\ Begin(t, "updateMetas", Invocation("generic", "updateMetas", ctl.options))
    /\ UNCHANGED <<ctl, dmmf, orm, pc, cur, db, req, calls, res>>

\* what the backend call behind an operation can come to: a record, nothing,
\* or a failure with or without an error code
OutcomesOf(op) ==
    CASE op = "create" -> {"record", "P2002", "failure"}
      [] op = "update" -> {"record", "P2002", "P2025", "failure"}
      [] op = "delete" -> {"record", "P2025", "failure"}
      [] op = "updateMetas" -> {"record", "empty", "P2025", "failure"}
      [] OTHER -> {"record", "empty", "failure"}

Failed(outcome) == outcome \in {"P2002", "P2025", "failure"}

\* the code property of the error the controller catches. PrimateService.update
\* rethrows the backend's error (part_008 lines 211-213); create, get, delete and
\* updateMetas throw a new Error built from its message (lines 86-89, 454-457,
\* 240-243, 565-568), which has no code; a supplied service lets it through
CaughtCode(target, op, outcome) ==
    IF outcome \in {"P2002", "P2025"} /\ (target = "custom" \/ op = "update") THEN outcome ELSE "none"

\* the response each handler sends for the outcome of its service call
ResponseFor(op, target, outcome) ==
    LET code == CaughtCode(target, op, outcome)
    IN CASE op = "create" ->
              \* lines 302-326
              IF ~Failed(outcome) THEN Respond(200, "Post created successfully", "")
              ELSE IF code = "P2002" THEN Respond(400, "Post already exists", "")
              ELSE Respond(400, "Error creating Post: ", outcome)
         [] op = "update" ->
              \* lines 418-439
              IF ~Failed(outcome) THEN Respond(200, "Post updated successfully", "")
              ELSE IF code = "P2025" THEN Respond(400, "Error updating Post: ", "cause")
              ELSE IF code = "P2002" THEN Respond(400, "Post already exists", "")
              ELSE Respond(400, "Error updating Post: ", outcome)
         [] op = "get" ->
              \* lines 346-365
              IF Failed(outcome) THEN Respond(400, "Error retrieving Post: ", outcome)
              ELSE IF outcome = "empty" THEN Respond(404, "Post not found", "")
              ELSE Respond(200, "Post retrieved successfully", "")
         [] op = "all" ->
              \* lines 243-277
              IF Failed(outcome) THEN Respond(401, "", outcome)
              ELSE IF outcome = "empty" THEN Respond(404, "posts not found", "")
              ELSE Respond(200, "Post retrieved successfully", "")
         [] op = "delete" ->
              \* lines 472-488
              IF Failed(outcome) THEN Respond(500, "Error deleting Post: ", outcome)
              ELSE IF outcome = "empty" THEN Respond(404, "Post not found", "")
              ELSE Respond(200, "Post deleted successfully", "")
         [] OTHER ->
              \* updateMetas, lines 558-576; a missing record makes the service throw
              IF Failed(outcome) \/ outcome = "empty"
              THEN Respond(500, "Error updating metas for Post: ", outcome)
              ELSE Respond(200, "Post updated successfully", "")

\* the awaited service call settles and the handler responds
ServiceReturns(t, outcome) ==
    /\ tasks[t].pc = "call"
    /\ outcome \in OutcomesOf(tasks[t].op)
    /\ LET last == tasks[t].invoked[Len(tasks[t].invoked)]
       IN tasks' = [tasks EXCEPT ![t] = [@ EXCEPT !.pc = "done", !.backend = outcome,
                        !.response = ResponseFor(tasks[t].op, last.target, outcome)]]
    /\ UNCHANGED <<ctl, dmmf, orm, pc, cur, db, req, calls, res>>

\* the service objects a controller is built with: none of the operations,
\* one of them, all but one, or all
ServiceObjects == {S \in SUBSET Ops : Cardinality(S) \in {0, 1, 5, 6}}

ControllerRequest ==
    \E t \in Requests :
        \/ ControllerAll(t)
        \/ ControllerCreate(t)
        \/ ControllerGet(t)
        \/ ControllerUpdate(t)
        \/ ControllerDelete(t)
        \/ ControllerUpdateMetas(t)

ControllerResume ==
    \E t \in Requests :
        \/ \E old \in {"record", "none", "error"} : ControllerUpdateFetched(t, old)
        \/ \E outcome \in {"record", "empty", "P2002", "P2025", "failure"} : ServiceReturns(t, outcome)

InitController ==
    /\ dmmf = BlogSchema
    /\ orm = NullOrm
    /\ pc = "load"
    /\ cur = 0
    /\ db = EmptyDb
    /\ req = NoRequest
    /\ calls = <<>>
    /\ res = NoResult
    /\ ctl \in {[service |-> S, options |-> [idUser |-> NoUser, user |-> NoUser]] : S \in ServiceObjects}
    /\ tasks = [t \in Requests |-> NewTask(t)]

NextController ==
    \/ GenerateFields
    \/ AddManyToMany
    \/ AddOneToMany
    \/ GenerateReturns
    \/ ControllerRequest
    \/ ControllerResume

SpecController == InitController /\ [][NextController]_vars

----------------------------------------------------------------------------
(* PrimateController.all in front of PrimateService.all (utils.js, lines   *)
(* 218-278): the handler rewrites req.query, calls the generic service     *)
(* with it and responds.                                                   *)

\* lines 226-234: every parameter whose value parseInt reads as a number is
\* replaced by that number
ConvertQuery(query) ==
    [k \in DOMAIN query |-> IF ~isNaN(parseInt(query[k])) THEN parseInt(query[k]) ELSE query[k]]


\* lines 259-277: 404 for an empty page, 401 for whatever the service throws
FacadeResponse(outcome) ==
    IF outcome.res.status = "error" THEN ResponseFor("all", "generic", "failure")
    ELSE IF Len(outcome.res.value.data) = 0 THEN ResponseFor("all", "generic", "empty")
    ELSE ResponseFor("all", "generic", "record")

\* the whole handler for one request, no service object supplied; req.data
\* keeps the query as it arrived, req.query is what the service was given
FacadeAll(entity, query) ==
    /\ Idle
    /\ LET given == ConvertQuery(query)
           outcome == AllOutcome(entity, given, db.rows)
       IN /\ req' = RequestWith("all", entity, Undefined, query, given, NoOptions)
          /\ calls' = outcome.calls
          /\ res' = outcome.res
          /\ tasks' = <<[NewTask(NoUser) EXCEPT !.op = "all", !.pc = "done",
                            !.invoked = <<Invocation("generic", "all", ctl.options)>>,
                            !.response = FacadeResponse(outcome)]>>
    /\ UNCHANGED <<ctl, dmmf, orm, pc, cur, db>>

\* Post with a String and an Int field besides its id
FacadeSchema ==
    [present |-> TRUE,
     models |-> << [name |-> "Post",
                    fields |-> <<Field("id", "Int"), Field("title", "String"), Field("views", "Int")>>] >>]

\* titles of the stored rows
FacadeTitles == {<<"5">>, <<"6">>, <<"a">>}
MaxFacadeRows == 2
FacadeRows ==
    UNION {{[i \in 1 .. n |-> [id |-> i, title |-> k[i], page |-> <<"1">>]] :
              k \in [1 .. n -> FacadeTitles]} : n \in 0 .. MaxFacadeRows}

\* values as they arrive in the query string
FacadeValues ==
    {Absent, Str(<<"5">>), Str(<<"5", ",", "6">>), Str(<<"1", "2", "a", "b", "c">>), Str(<<"0">>),
     Str(<<"a">>), Str(<<"a", ",", "5">>)}

FacadeQuery(title, views, page, bogus) ==
    Obj({q \in {<<"title", title>>, <<"views", views>>, <<"page", page>>, <<"bogus", bogus>>} :
            q[2] # Absent})

FacadeCall ==
    /\ Idle
    /\ \E t \in FacadeValues : \E v \in {Absent, Str(<<"5">>)} : \E p \in {Absent, Str(<<"1">>)} :
         \E b \in {Absent, Str(<<"7">>)} :
           FacadeAll("post", FacadeQuery(t, v, p, b))

InitFacade ==
    /\ dmmf = FacadeSchema
    /\ orm = NullOrm
    /\ pc = "load"
    /\ cur = 0
    /\ db \in {[related |-> {}, rows |-> r] : r \in FacadeRows}
    /\ req = NoRequest
    /\ calls = <<>>
    /\ res = NoResult
    /\ ctl = [service |-> {}, options |-> [idUser |-> NoUser, user |-> NoUser]]
    /\ tasks = NoTasks

NextFacade ==
    \/ GenerateFields
    \/ AddManyToMany
    \/ AddOneToMany
    \/ GenerateReturns
    \/ FacadeCall
    \/ Return

SpecFacade == InitFacade /\ [][NextFacade]_vars

----------------------------------------------------------------------------
(* A controller constructed without options.service for a model whose      *)
(* service file exists (utils.js, lines 171-209): the constructor starts   *)
(* the dynamic import and returns; this.service is assigned when the       *)
(* import has resolved.                                                    *)

\* the operations the service file exports: every one, or all but all
ServiceModules == {Ops, Ops \ {"all"}}

\* lines 182-192 and 203-208 have run: this.service is still undefined
Constructed(module) ==
    [service |-> {}, options |-> [idUser |-> NoUser, user |-> NoUser],
     importing |-> TRUE, module |-> module]

\* lines 190-191: the import resolves and this.service is assigned
ImportResolves ==
    /\ ctl.importing
    /\ ctl' = [ctl EXCEPT !.service = ctl.module, !.importing = FALSE]
    /\ UNCHANGED <<tasks, dmmf, orm, pc, cur, db, req, calls, res>>

InitImport ==
    /\ dmmf = BlogSchema
    /\ orm = NullOrm
    /\ pc = "load"
    /\ cur = 0
    /\ db = EmptyDb
    /\ req = NoRequest
    /\ calls = <<>>
    /\ res = NoResult
    /\ ctl \in {Constructed(m) : m \in ServiceModules}
    /\ tasks = [t \in Requests |-> NewTask(t)]

NextImport ==
    \/ GenerateFields
    \/ AddManyToMany
    \/ AddOneToMany
    \/ GenerateReturns
    \/ ImportResolves
    \/ ControllerRequest
    \/ ControllerResume

SpecImport == InitImport /\ [][NextImport]_vars

----------------------------------------------------------------------------
(* PrimateService.update and PrimateService.all as asynchronous calls: a   *)
(* call runs without interruption up to its next await, and the calls of   *)
(* several requests interleave at their awaits. tasks[t].log is the        *)
(* sequence of the hook and backend events of call t.                      *)

NewCall ==
    [op |-> "none", pc |-> "new", hook |-> FALSE, data |-> <<>>, read |-> {}, raced |-> FALSE,
     order |-> 0, log |-> <<>>, result |-> NoResult]

\* the relation of the first model that update reconciles
FirstRelation(model) == orm.obj[model].relations[orm.obj[model].relOrder[1]]

\* the calls whose backend update has been applied
Written == {u \in DOMAIN tasks : tasks[u].op = "update" /\ tasks[u].pc = "done"}

\* the calls that have read the related set
HaveRead == {u \in DOMAIN tasks : tasks[u].op = "update" /\ tasks[u].pc \in {"write", "done"}}

\* the read is issued without awaiting the hook
UpdateCalledNoAwait(t, data, hook) ==
    /\ pc = "ready"
    /\ tasks[t].pc = "new"
    /\ tasks' = [tasks EXCEPT ![t] = [@ EXCEPT
          !.op = "update", !.data = data, !.hook = hook,
          !.pc = IF hook THEN "hook" ELSE "read",
          !.log = IF hook THEN <<"filterUpdateData called", "findUnique issued">>
                  ELSE <<"findUnique issued">>]]
    /\ UNCHANGED <<ctl, dmmf, orm, pc, cur, db, req, calls, res>>

\* lines 105-117 and, without a hook, on to the findUnique of line 142
UpdateCalled(t, data, hook) ==
    /\ pc = "ready"
    /\ tasks[t].pc = "new"
    /\ tasks' = [tasks EXCEPT ![t] = [@ EXCEPT
          !.op = "update", !.data = data, !.hook = hook,
          !.pc = IF hook THEN "hook" ELSE "read",
          !.log = IF hook THEN <<"filterUpdateData called">> ELSE <<"findUnique issued">>]]
    /\ UNCHANGED <<ctl, dmmf, orm, pc, cur, db, req, calls, res>>

\* line 116: the awaited hook settles; lines 121-142 run up to the findUnique
UpdateHookReturns(t) ==
    /\ tasks[t].op = "update"
    /\ tasks[t].pc = "hook"
    /\ tasks' = [tasks EXCEPT ![t] = [@ EXCEPT
          !.pc = "read",
          !.log = @ \o <<"filterUpdateData returned", "findUnique issued">>]]
    /\ UNCHANGED <<ctl, dmmf, orm, pc, cur, db, req, calls, res>>

\* line 142: the awaited read settles with the related set as stored now; lines
\* 150-210 build the directives and issue the update
UpdateReadReturns(t) ==
    /\ tasks[t].op = "update"
    /\ tasks[t].pc = "read"
    /\ LET model == LowerFirst(ModelA)
           entity == FindRelated(model, Num(RecordId))
           data == sanitizeData(UpdateManyToMany(tasks[t].data, FirstRelation(model), entity.related),
                                model)
       IN tasks' = [tasks EXCEPT ![t] = [@ EXCEPT
             !.pc = "write", !.data = data, !.read = db.related,
             !.log = @ \o <<"findUnique returned", "update issued">>]]
    /\ UNCHANGED <<ctl, dmmf, orm, pc, cur, db, req, calls, res>>

\* the write applies the directives of a diff taken against the stored set as
\* it is at the time of the write
UpdateWriteRereads(t) ==
    /\ tasks[t].op = "update"
    /\ tasks[t].pc = "write"
    /\ db' = [db EXCEPT !.related = IdSet(tasks[t].data[PluralB].connect)]
    /\ tasks' = [tasks EXCEPT ![t] = [@ EXCEPT
          !.pc = "done", !.raced = HaveRead = DOMAIN tasks, !.order = Cardinality(Written) + 1,
          !.log = Append(@, "update returned"), !.result = Ok(<<>>)]]
    /\ UNCHANGED <<ctl, dmmf, orm, pc, cur, req, calls, res>>

\* line 210: the backend applies the update built from the earlier read
UpdateWriteReturns(t) ==
    /\ tasks[t].op = "update"
    /\ tasks[t].pc = "write"
    /\ db' = [db EXCEPT !.related = RelatedAfter(LowerFirst(ModelA), tasks[t].data)]
    /\ tasks' = [tasks EXCEPT ![t] = [@ EXCEPT
          !.pc = "done", !.raced = HaveRead = DOMAIN tasks, !.order = Cardinality(Written) + 1,
          !.log = Append(@, "update returned"), !.result = Ok(<<>>)]]
    /\ UNCHANGED <<ctl, dmmf, orm, pc, cur, req, calls, res>>

\* lines 256-329 and, without a hook, on to the count of line 332
AllCalled(t, query, hook) ==
    /\ pc = "ready"
    /\ tasks[t].pc = "new"
    /\ tasks' = [tasks EXCEPT ![t] = [@ EXCEPT
          !.op = "all", !.data = query, !.hook = hook,
          !.pc = IF hook THEN "hook" ELSE "count",
          !.log = IF hook THEN <<"filterAllQuery called">> ELSE <<"count issued">>]]
    /\ UNCHANGED <<ctl, dmmf, orm, pc, cur, db, req, calls, res>>

\* line 328: the awaited hook settles (the query object is kept as it is)
AllHookReturns(t) ==
    /\ tasks[t].op = "all"
    /\ tasks[t].pc = "hook"
    /\ tasks' = [tasks EXCEPT ![t] = [@ EXCEPT
          !.pc = "count", !.log = @ \o <<"filterAllQuery returned", "count issued">>]]
    /\ UNCHANGED <<ctl, dmmf, orm, pc, cur, db, req, calls, res>>

\* line 332: the awaited count settles; lines 334-372 return the count alone or
\* issue the findMany
AllCountReturns(t) ==
    /\ tasks[t].op = "all"
    /\ tasks[t].pc = "count"
    /\ LET outcome == AllOutcome(LowerFirst(ModelA), tasks[t].data, db.rows)
       IN tasks' = [tasks EXCEPT ![t] =
             IF Len(outcome.calls) < 2
             THEN [@ EXCEPT !.pc = "done", !.log = Append(@, "count returned"), !.result = outcome.res]
             ELSE [@ EXCEPT !.pc = "rows", !.log = @ \o <<"count returned", "findMany issued">>]]
    /\ UNCHANGED <<ctl, dmmf, orm, pc, cur, db, req, calls, res>>

\* line 372: the awaited findMany settles
AllRowsReturn(t) ==
    /\ tasks[t].op = "all"
    /\ tasks[t].pc = "rows"
    /\ tasks' = [tasks EXCEPT ![t] = [@ EXCEPT
          !.pc = "done", !.log = Append(@, "findMany returned"),
          !.result = AllOutcome(LowerFirst(ModelA), tasks[t].data, db.rows).res]]
    /\ UNCHANGED <<ctl, dmmf, orm, pc, cur, db, req, calls, res>>

MaxRaceId == 2
RaceIds == 1 .. MaxRaceId

\* the desired related set as an array of plain numeric ids
DesiredOf(S) == Arr([i \in 1 .. Cardinality(S) |-> Item(FALSE, Num(Ascending(S)[i]))])

AsyncUpdateCall ==
    \E t \in Requests : \E S \in SUBSET RaceIds : \E hook \in BOOLEAN :
        UpdateCalled(t, Obj({<<PluralB, DesiredOf(S)>>}), hook)

AsyncUpdateStep ==
    \E t \in Requests :
        \/ UpdateHookReturns(t)
        \/ UpdateReadReturns(t)
        \/ UpdateWriteReturns(t)

AsyncAllCall ==
    \E t \in Requests : \E title \in {Absent, Str(<<"a">>)} : \E count \in CountParams :
        \E hook \in BOOLEAN :
            AllCalled(t, Query(Absent, Absent, title, Absent, count), hook)

AsyncAllStep ==
    \E t \in Requests :
        \/ AllHookReturns(t)
        \/ AllCountReturns(t)
        \/ AllRowsReturn(t)

\* the rows of the first model
AsyncRows ==
    << [id |-> 1, title |-> <<"a">>, page |-> <<"1">>], [id |-> 2, title |-> <<"b">>, page |-> <<"1">>] >>

InitAsync ==
    /\ dmmf = BlogSchema
    /\ orm = NullOrm
    /\ pc = "load"
    /\ cur = 0
    /\ db \in {[related |-> S, rows |-> AsyncRows] : S \in SUBSET RaceIds}
    /\ req = NoRequest
    /\ calls = <<>>
    /\ res = NoResult
    /\ ctl = NoController
    /\ tasks = [t \in Requests |-> NewCall]

NextAsync ==
    \/ GenerateFields
    \/ AddManyToMany
    \/ AddOneToMany
    \/ GenerateReturns
    \/ AsyncUpdateCall
    \/ AsyncUpdateStep
    \/ AsyncAllCall
    \/ AsyncAllStep

SpecAsync == InitAsync /\ [][NextAsync]_vars

----------------------------------------------------------------------------
(* Every operation of PrimateService, called one after the other on the    *)
(* same metadata and the same stored record.                               *)

\* Post and Tag, each declaring the other's plural, Post with metas
ServiceSchema ==
    [present |-> TRUE,
     models |-> << [name |-> "Post",
                    fields |-> <<Field("id", "Int"), Field("title", "String"), Field("tags", "Tag"),
                                 Field("metas", "Json")>>],
                   [name |-> "Tag", fields |-> <<Field("id", "Int"), Field("posts", "Post")>>] >>]

ServicePayloads ==
    {Obj({<<"title", Str(<<"T">>)>>}),
     Obj({<<"title", Str(<<"T">>)>>, <<"bogus", Num(1)>>, <<"relations", Str(<<"x">>)>>}),
     Obj({<<"idTag", Num(1)>>})}
    \cup {Obj({<<PluralB, DesiredOf(S)>>}) : S \in SUBSET RaceIds}

ServiceCall ==
    /\ Idle
    /\ \/ \E data \in ServicePayloads : \E m \in {"Post", "post", "Ghost"} : Create(m, data)
       \/ \E data \in ServicePayloads : \E id \in RouteIds : Update(id, data, "Post")
       \/ \E id \in RouteIds : \E m \in {"Post", "Ghost"} : ServiceDelete(id, m)
       \/ \E id \in RouteIds : \E f \in SUBSET {"tags"} : Get(id, "Post", [fetch |-> f])
       \/ \E t \in TitleParams : \E c \in CountParams : \E l \in LimitParams :
            \E r \in {{}, {<<"relations", Str(<<"x">>)>>}, {<<"bogus", Str(<<"x">>)>>},
                       {<<"tags", Str(<<"1", ",", "2">>)>>}} :
                All("post", Obj({<<k, Query(Absent, l, t, Absent, c)[k]>> :
                                    k \in DOMAIN Query(Absent, l, t, Absent, c)} \cup r))
       \/ \E id \in RouteIds : \E P \in MetaMaps : UpdateMetas(id, P, "post")
       \/ \E data \in ServicePayloads : \E m \in {"post", "ghost"} : Sanitize(data, m)

InitService ==
    /\ dmmf \in {ServiceSchema, NoDmmf}
    /\ orm = NullOrm
    /\ pc = "load"
    /\ cur = 0
    /\ db = [related |-> {}, rows |-> AsyncRows, title |-> <<"T">>, metas |-> NullMetas]
    /\ req = NoRequest
    /\ calls = <<>>
    /\ res = NoResult
    /\ ctl = NoController
    /\ tasks = NoTasks

NextService ==
    \/ GenerateThrows
    \/ GenerateFields
    \/ AddManyToMany
    \/ AddOneToMany
    \/ GenerateReturns
    \/ ServiceCall
    \/ Return

SpecService == InitService /\ [][NextService]_vars

----------------------------------------------------------------------------
(* get, update and all called with options.searchField and with            *)
(* fetch-<name> parameters on one entity.                                  *)

\* User with an Int or a String id, with or without a uid, related to Team
LookupSchemas ==
    {[present |-> TRUE,
      models |-> << [name |-> "User",
                     fields |-> <<Field("id", t)>> \o u
                                \o <<Field("name", "String"), Field("age", "Int"), Field("teams", "Team")>>],
                    [name |-> "Team", fields |-> <<Field("id", "Int"), Field("users", "User")>>] >>] :
        <<t, u>> \in {"Int", "String"} \X {<<>>, <<Field("uid", "String")>>}}

\* "<RecordId>", the record's uid, "7up" and "zzz"
LookupIds ==
    {Str(ToChars(RecordId)), Str(RecordUid), Str(<<"7", "u", "p">>), Str(<<"z", "z", "z">>)}

LookupOptions ==
    {NoOptions}
    \cup {Options("string", <<f>>) : f \in {"uid", "bogus"}}
    \cup {Options("array", fs) :
            fs \in {<<>>, <<"uid">>, <<"age">>, <<"uid", "name">>, <<"bogus", "uid">>, <<"relations">>}}

MaxLookupId == 2

\* a scalar payload and the desired related sets as arrays of numbers
LookupPayloads ==
    {Obj({<<"name", Str(<<"A", "n", "n">>)>>})}
    \cup {Obj({<<"teams", DesiredOf(S)>>}) : S \in SUBSET (1 .. MaxLookupId)}

\* the names of the fetch-<name> parameters of a request
LookupFetches ==
    {<<>>, <<"teams">>, <<"bogus">>, <<"relations">>, <<"teams", "name">>, <<"bogus", "teams">>}

LookupCall ==
    /\ Idle
    /\ \/ \E id \in LookupIds : \E o \in LookupOptions : \E f \in LookupFetches :
            GetWith(id, "User", [fetch |-> SeqToSet(f)], o)
       \/ \E id \in LookupIds : \E o \in LookupOptions : \E data \in LookupPayloads :
            UpdateWith(id, data, "User", o)
       \/ \E f \in LookupFetches : \E c \in {Absent, Str(<<"1">>)} :
            All("user", Obj({q \in {<<"fetch-", IF f = <<>> THEN Absent ELSE FetchParams(f)>>,
                                     <<"count", c>>} : q[2] # Absent}))

InitLookup ==
    /\ dmmf \in LookupSchemas
    /\ orm = NullOrm
    /\ pc = "load"
    /\ cur = 0
    /\ db = [related |-> {1}, rows |-> AsyncRows]
    /\ req = NoRequest
    /\ calls = <<>>
    /\ res = NoResult
    /\ ctl = NoController
    /\ tasks = NoTasks

NextLookup ==
    \/ GenerateFields
    \/ AddManyToMany
    \/ AddOneToMany
    \/ GenerateReturns
    \/ LookupCall
    \/ Return

SpecLookup == InitLookup /\ [][NextLookup]_vars

----------------------------------------------------------------------------
(* PrimateService.updateMetas (lines 531-569) as an asynchronous call on    *)
(* the stored record: the read and the write are two awaits.               *)

\* the calls that have read the stored metas
MetasHaveRead == {u \in DOMAIN tasks : tasks[u].op = "updateMetas" /\ tasks[u].pc \in {"write", "done"}}

\* the calls whose write has been applied
MetasWritten == {u \in DOMAIN tasks : tasks[u].op = "updateMetas" /\ tasks[u].pc = "done"}

\* lines 531-548: the arguments pass the checks and the findUnique is issued
MetasCalled(t, metas) ==
    /\ pc = "ready"
    /\ tasks[t].pc = "new"
    /\ tasks' = [tasks EXCEPT ![t] = [@ EXCEPT
          !.op = "updateMetas", !.data = metas, !.pc = "read", !.log = <<"findUnique issued">>]]
    /\ UNCHANGED <<ctl, dmmf, orm, pc, cur, db, req, calls, res>>

\* lines 545-564: the read settles with the metas as stored now; they are
\* merged with the payload and the update is issued with the merged object
MetasReadReturns(t) ==
    /\ tasks[t].op = "updateMetas"
    /\ tasks[t].pc = "read"
    /\ tasks' = [tasks EXCEPT ![t] = [@ EXCEPT
          !.pc = "write", !.read = MergeMetas(db["metas"].map, tasks[t].data),
          !.log = @ \o <<"findUnique returned", "update issued">>]]
    /\ UNCHANGED <<ctl, dmmf, orm, pc, cur, db, req, calls, res>>

\* line 561: the backend stores the merged object the call built
MetasWriteReturns(t) ==
    /\ tasks[t].op = "updateMetas"
    /\ tasks[t].pc = "write"
    /\ db' = Put(db, "metas", Metas(tasks[t].read))
    /\ tasks' = [tasks EXCEPT ![t] = [@ EXCEPT
          !.pc = "done", !.raced = MetasHaveRead = DOMAIN tasks,
          !.order = Cardinality(MetasWritten) + 1,
          !.log = Append(@, "update returned"), !.result = Ok(<<>>)]]
    /\ UNCHANGED <<ctl, dmmf, orm, pc, cur, req, calls, res>>

AsyncMetasCall == \E t \in Requests : \E P \in MetaMaps : MetasCalled(t, P)

AsyncMetasStep ==
    \E t \in Requests :
        \/ MetasReadReturns(t)
        \/ MetasWriteReturns(t)

InitAsyncMetas ==
    /\ dmmf = ServiceSchema
    /\ orm = NullOrm
    /\ pc = "load"
    /\ cur = 0
    /\ db \in {[related |-> {}, title |-> <<"T">>, metas |-> M] :
                  M \in {NullMetas} \cup {Metas(map) : map \in MetaMaps}}
    /\ req = NoRequest
    /\ calls = <<>>
    /\ res = NoResult
    /\ ctl = NoController
    /\ tasks = [t \in Requests |-> NewCall]

NextAsyncMetas ==
    \/ GenerateFields
    \/ AddManyToMany
    \/ AddOneToMany
    \/ GenerateReturns
    \/ AsyncMetasCall
    \/ AsyncMetasStep

SpecAsyncMetas == InitAsyncMetas /\ [][NextAsyncMetas]_vars

----------------------------------------------------------------------------
(* The auth middleware, src/middlewares/auth.js lines 15-57: one task per   *)
(* request, suspended at the await of jwt.verifyAccessToken.               *)

\* the Authorization header: absent, or "<scheme>" followed or not by a token
NoHeader == [present |-> FALSE, scheme |-> "", hasToken |-> FALSE, token |-> "", user |-> 0]
Header(scheme, token, user) ==
    [present |-> TRUE, scheme |-> scheme, hasToken |-> token # "", token |-> token, user |-> user]

\* jwt.verify (jwt.js lines 17-27): the payload of a token that was signed with
\* the secret and has not expired; any other token rejects
Verifies(header) == header.token = "signed"

\* line 15: a request with req.user unset, no response sent, next not called
AuthTask(header) ==
    [header |-> header, at |-> "called", user |-> NoUser, verified |-> FALSE,
     nexts |-> 0, responses |-> <<>>]

MaxAuthRequests == 2

\* lines 18-36 up to the await: 401 without a header or without a second word
AuthCalled(header) ==
    /\ Len(tasks) < MaxAuthRequests
    /\ tasks' = Append(tasks,
                       IF ~header.present \/ ~header.hasToken
                       THEN [AuthTask(header) EXCEPT !.at = "done", !.responses = <<401>>]
                       ELSE [AuthTask(header) EXCEPT !.at = "verify"])
    /\ UNCHANGED <<ctl, dmmf, orm, pc, cur, db, req, calls, res>>

\* next() called whether or not the token verifies
AuthVerifyResolvesAlways(t) ==
    /\ tasks[t].at = "verify"
    /\ tasks' = [tasks EXCEPT ![t].at = "done",
                              ![t].user = tasks[t].header.user,
                              ![t].nexts = @ + 1]
    /\ UNCHANGED <<ctl, dmmf, orm, pc, cur, db, req, calls, res>>

\* lines 36-37: the promise resolves with the payload; req.user is set, then next()
AuthVerifyResolves(t) ==
    /\ tasks[t].at = "verify"
    /\ Verifies(tasks[t].header)
    /\ tasks' = [tasks EXCEPT ![t].at = "done",
                              ![t].user = tasks[t].header.user,
                              ![t].verified = TRUE,
                              ![t].nexts = @ + 1]
    /\ UNCHANGED <<ctl, dmmf, orm, pc, cur, db, req, calls, res>>

\* lines 39-56: the promise rejects; every branch of the catch responds 401
AuthVerifyRejects(t) ==
    /\ tasks[t].at = "verify"
    /\ ~Verifies(tasks[t].header)
    /\ tasks' = [tasks EXCEPT ![t].at = "done", ![t].responses = Append(@, 401)]
    /\ UNCHANGED <<ctl, dmmf, orm, pc, cur, db, req, calls, res>>

\* the users of the tokens in use
AuthUsers == {1, 2}

AuthHeaders ==
    {NoHeader, Header("Bearer", "", 0)}
    \cup {Header(sc, tk, u) : <<sc, tk, u>> \in {"Bearer", "Basic"} \X {"signed", "expired", "malformed"} \X AuthUsers}

\* the server has sent its responses and takes new requests
AuthDrain ==
    /\ Len(tasks) > 0
    /\ \A t \in DOMAIN tasks : tasks[t].at = "done"
    /\ tasks' = <<>>
    /\ UNCHANGED <<ctl, dmmf, orm, pc, cur, db, req, calls, res>>

AuthRequest == \E h \in AuthHeaders : AuthCalled(h)
AuthResolve == \E t \in DOMAIN tasks : AuthVerifyResolves(t)
AuthReject == \E t \in DOMAIN tasks : AuthVerifyRejects(t)

InitAuth ==
    /\ dmmf = NoDmmf
    /\ orm = NullOrm
    /\ pc = "ready"
    /\ cur = 0
    /\ db = EmptyDb
    /\ req = NoRequest
    /\ calls = <<>>
    /\ res = NoResult
    /\ ctl = NoController
    /\ tasks = NoTasks

NextAuth ==
    \/ AuthRequest
    \/ AuthResolve
    \/ AuthReject
    \/ AuthDrain

SpecAuth == InitAuth /\ [][NextAuth]_vars

\* the event loop runs every continuation whose promise has settled
FairAuth == SpecAuth /\ WF_vars(AuthResolve) /\ WF_vars(AuthReject)

----------------------------------------------------------------------------
(* Relation inference claims.                                              *)

Declares(model, field) == field \in DOMAIN orm.obj[model].fields

RelationOf(model, otherModel) ==
    IF orm.obj[model].hasRelations /\ otherModel \in DOMAIN orm.obj[model].relations
    THEN orm.obj[model].relations[otherModel]
    ELSE NoRelation

Built == pc = "ready" /\ ~orm.null

ModelPairs == {p \in SeqToSet(orm.models) \X SeqToSet(orm.models) : p[1] # p[2]}

MutualPlurals(a, b) == Declares(a, pluralize(b)) /\ Declares(b, pluralize(a))

\* C1 as stated: whenever A declares plural(B) and B declares plural(A), the
\* finished map holds a many-to-many descriptor with model B at A.relations[B]
\* (and, the pair taken the other way round, one with model A at B.relations[A]).
C1_ManyToManyOnBothSides ==
    Built => \A p \in ModelPairs :
        MutualPlurals(p[1], p[2]) =>
            /\ RelationOf(p[1], p[2]).type = "many-to-many"
            /\ RelationOf(p[1], p[2]).model = p[2]

\* C1 amended: with mutual plurals, A.relations[B] is the many-to-many descriptor
\* of B unless A also declares id<B>; then the one-to-many pass, which runs
\* after the many-to-many pass, has replaced it by the one-to-many descriptor.
C1_ManyToManyUnlessIdField ==
    Built => \A p \in ModelPairs :
        MutualPlurals(p[1], p[2]) =>
            RelationOf(p[1], p[2]) =
                IF Declares(p[1], OneToManyField(p[2]))
                THEN OneToManyDescriptor(p[2], OneToManyField(p[2]))
                ELSE ManyToManyDescriptor(p[2])

C1_Witness ==
    /\ Built
    /\ \E p \in ModelPairs :
        /\ MutualPlurals(p[1], p[2])
        /\ ~Declares(p[1], OneToManyField(p[2]))
        /\ Declares(p[2], OneToManyField(p[1]))
        /\ RelationOf(p[1], p[2]).type = "many-to-many"
        /\ RelationOf(p[2], p[1]).type = "one-to-many"

\* C2: A.relations[B] is the one-to-many descriptor with field id<B> when A
\* declares id<B> and B declares plural(A); when exactly one of the two sides
\* follows its convention, A.relations[B] is no one-to-many descriptor.
C2_OneToManyNeedsBothSides ==
    Built => \A p \in ModelPairs :
        LET own == Declares(p[1], OneToManyField(p[2]))
            other == Declares(p[2], pluralize(p[1]))
        IN /\ (own /\ other) => RelationOf(p[1], p[2]) = OneToManyDescriptor(p[2], OneToManyField(p[2]))
           /\ (own # other) => RelationOf(p[1], p[2]).type # "one-to-many"

C2_Witness ==
    /\ Built
    /\ \E p \in ModelPairs :
        /\ Declares(p[1], OneToManyField(p[2]))
        /\ Declares(p[2], pluralize(p[1]))
        /\ RelationOf(p[1], p[2]).type = "one-to-many"
        /\ Declares(p[2], OneToManyField(p[1]))
        /\ ~Declares(p[1], pluralize(p[2]))
        /\ RelationOf(p[2], p[1]) = NoRelation

----------------------------------------------------------------------------
(* Create claims.                                                          *)

Ann == Str(<<"A", "n", "n">>)

CreatedOn(model) == req.op = "create" /\ LowerFirst(req.model) = model /\ KnownModel(model)

FieldsOf(model) == DOMAIN orm.obj[model].fields

OneCreate == Len(calls) = 1 /\ calls[1].op = "create"

\* the number a payload id stands for, read off its digits
RECURSIVE NumberOf(_, _)
NumberOf(chars, n) == IF ToChars(n) = chars THEN n ELSE NumberOf(chars, n + 1)
IdOf(v) == IF v.k = "num" THEN v.n ELSE NumberOf(v.s, 0)

\* C3 as stated: User declares name and idTeam, Team declares users; the
\* inferred relation is one-to-many on idTeam, and create({name: "Ann",
\* idTeam: 5}, 'user') issues one create with team: {connect: {id: 5}} and
\* without idTeam.
C3_ScenarioConnectsTeam ==
    (/\ Built
     /\ SeqToSet(orm.models) = {"user", "team"}
     /\ FieldsOf("user") = {"name", "idTeam"}
     /\ FieldsOf("team") = {"users"})
    => /\ RelationOf("user", "team") = OneToManyDescriptor("team", "idTeam")
       /\ (req = Request("create", "user", <<>>, Obj({<<"name", Ann>>, <<"idTeam", Num(5)>>}), <<>>)
           => /\ OneCreate
              /\ "team" \in DOMAIN calls[1].data
              /\ calls[1].data["team"] = ConnectOne(Num(5))
              /\ "idTeam" \notin DOMAIN calls[1].data)

\* C3 amended: with User declaring idTeam and Team declaring users the relation
\* is one-to-many on idTeam, and a create on user whose payload carries idTeam 5
\* issues one create without idTeam; its data has team: {connect: {id: 5}}
\* exactly when User also declares the relation field team (sanitizeData drops
\* the key otherwise).
C3_ConnectsTeamWhenDeclared ==
    (/\ Built
     /\ SeqToSet(orm.models) = {"user", "team"}
     /\ {"idTeam"} \subseteq FieldsOf("user")
     /\ {"users"} \subseteq FieldsOf("team"))
    => /\ RelationOf("user", "team") = OneToManyDescriptor("team", "idTeam")
       /\ (/\ CreatedOn("user")
           /\ "idTeam" \in DOMAIN req.data
           /\ req.data["idTeam"] \in {Num(5), Str(<<"5">>)})
           => /\ OneCreate
              /\ "idTeam" \notin DOMAIN calls[1].data
              /\ "team" \in DOMAIN calls[1].data <=> "team" \in FieldsOf("user")
              /\ "team" \in DOMAIN calls[1].data => calls[1].data["team"] = ConnectOne(Num(5))
              /\ \A k \in DOMAIN calls[1].data \ {"team"} :
                    k \in DOMAIN req.data /\ calls[1].data[k] = req.data[k]

C3_Witness ==
    /\ Built
    /\ SeqToSet(orm.models) = {"user", "team"}
    /\ FieldsOf("user") = {"name", "idTeam", "team"}
    /\ FieldsOf("team") = {"users"}
    /\ req = Request("create", "user", <<>>, Obj({<<"name", Ann>>, <<"idTeam", Num(5)>>}), <<>>)
    /\ OneCreate
    /\ calls[1].data = Obj({<<"name", Ann>>, <<"team", ConnectOne(Num(5))>>})

\* C4: when the entity has a many-to-many relation with plural field p and the
\* create payload holds an array of raw ids and objects carrying an id at p, the
\* one backend create receives p = {connect: [{id: i1}, ..., {id: in}]}, one
\* entry per element, in the order of the array.
C4_ConnectListPerElement ==
    \A m \in DOMAIN orm.obj : \A b \in DOMAIN orm.obj :
        LET rd == RelationOf(m, b)
            p == rd.plural
        IN (/\ Built
            /\ CreatedOn(m)
            /\ b # m
            /\ rd.type = "many-to-many"
            /\ p \in DOMAIN req.data
            /\ req.data[p].k = "arr")
           => /\ OneCreate
              /\ p \in DOMAIN calls[1].data
              /\ calls[1].data[p].k = "many"
              /\ ~calls[1].data[p].hasDisconnect
              /\ calls[1].data[p].connect =
                    [i \in DOMAIN req.data[p].items |-> Num(IdOf(req.data[p].items[i].v))]

C4_Witness ==
    /\ Built
    /\ CreatedOn("post")
    /\ "tag" \in DOMAIN orm.obj
    /\ RelationOf("post", "tag").type = "many-to-many"
    /\ "tags" \in DOMAIN req.data
    /\ req.data["tags"] = Arr(<<Item(FALSE, Num(1)), Item(TRUE, Num(2)), Item(FALSE, Num(3))>>)
    /\ OneCreate
    /\ calls[1].data["tags"].connect = <<Num(1), Num(2), Num(3)>>

----------------------------------------------------------------------------
(* Update claims.                                                          *)

\* an update of the stored record that reconciles its many-to-many field p
ReconcilingUpdate(p) ==
    /\ Built
    /\ req.op = "update"
    /\ req.id = Str(ToChars(RecordId))
    /\ KnownModel(LowerFirst(req.model))
    /\ LowerFirst(req.model) = orm.models[1]
    /\ \E b \in DOMAIN orm.obj :
          /\ RelationOf(LowerFirst(req.model), b).type = "many-to-many"
          /\ RelationOf(LowerFirst(req.model), b).plural = p
    /\ p \in DOMAIN req.data
    /\ req.data[p].k = "arr"

Desired(p) == {IdOf(req.data[p].items[i].v) : i \in DOMAIN req.data[p].items}

\* C5: after an update whose payload gives the desired related set D for a
\* many-to-many relation of an existing record, the record's related set is D.
C5_RelatedSetIsDesired ==
    ReconcilingUpdate(PluralB) => db.related = Desired(PluralB)

----------------------------------------------------------------------------
(* Identifier resolution claims.                                           *)

\* a get that passed its argument checks
GetOn(model) == req.op = "get" /\ Built /\ LowerFirst(req.model) = model /\ KnownModel(model) /\ req.id.s # <<>>

ParsesAsInteger(id) == Len(id.s) > 0 /\ IsDigit(id.s[1])

OneRead == Len(calls) = 1 /\ calls[1].op = "findFirst"

\* C7 as stated: an id that parses as an integer is read by {id: <integer>};
\* any other id by {uid: id} when the entity declares uid; otherwise the call
\* fails and no read is issued.
C7_ResolvesByIntegerOrUid ==
    \A m \in DOMAIN orm.obj :
        GetOn(m) =>
            IF ParsesAsInteger(req.id)
            THEN OneRead /\ calls[1].where = Obj({<<"id", Num(DigitPrefix(req.id.s, 1, 0))>>})
            ELSE IF "uid" \in FieldsOf(m)
                 THEN OneRead /\ calls[1].where = Obj({<<"uid", req.id>>})
                 ELSE calls = <<>> /\ res.status = "error"

\* C7 amended: an id that parses as an integer is read by {id: parseInt(id)}
\* when the entity's id field is declared Int and by {id: id}, the identifier
\* as given, otherwise; the other two cases are as stated.
C7_ResolvesByDeclaredIdType ==
    \A m \in DOMAIN orm.obj :
        GetOn(m) =>
            IF ParsesAsInteger(req.id)
            THEN /\ OneRead
                 /\ calls[1].where =
                        IF "id" \in FieldsOf(m) /\ orm.obj[m].fields["id"] = "Int"
                        THEN Obj({<<"id", Num(DigitPrefix(req.id.s, 1, 0))>>})
                        ELSE Obj({<<"id", req.id>>})
            ELSE IF "uid" \in FieldsOf(m)
                 THEN OneRead /\ calls[1].where = Obj({<<"uid", req.id>>})
                 ELSE calls = <<>> /\ res.status = "error"

C7_Witness ==
    /\ GetOn("user")
    /\ req.id = Str(<<"4", "2">>)
    /\ "id" \in FieldsOf("user")
    /\ orm.obj["user"].fields["id"] = "Int"
    /\ OneRead
    /\ calls[1].where = Obj({<<"id", Num(42)>>})

C7_WitnessUid ==
    /\ GetOn("user")
    /\ req.id = Str(<<"a", "b", "c", "-", "s", "l", "u", "g">>)
    /\ "uid" \in FieldsOf("user")
    /\ OneRead
    /\ calls[1].where = Obj({<<"uid", req.id>>})

----------------------------------------------------------------------------
(* Listing claims.                                                         *)

\* an all call on a model the metadata knows
AllOn == req.op = "all" /\ KnownModel(req.model)

\* the same query with other paging parameters
WithPaging(query, page, limit) ==
    LET rest == Delete(Delete(query, "page"), "limit")
        paged == IF page = Absent THEN rest ELSE Put(rest, "page", page)
    IN IF limit = Absent THEN paged ELSE Put(paged, "limit", limit)

DeclaresPagingField == \E f \in {"page", "limit"} : f \in FieldsOf(req.model)

CountIsStable ==
    \A p \in PageParams : \A l \in LimitParams :
        LET other == AllOutcome(req.model, WithPaging(req.query, p, l), db.rows).res
        IN /\ other.status = res.status
           /\ res.status = "ok" => other.value.count = res.value.count

CountIsOfMatches ==
    res.status = "ok" =>
        res.value.count = Cardinality({i \in DOMAIN db.rows : Matches(db.rows[i], calls[1].where)})

\* C8 as stated: for every entity, stored rows and query, the calls that differ
\* from this one only in page and limit return the same count, and the count
\* is the number of stored rows matching the filter, not the rows returned.
C8_CountIndependentOfPaging == AllOn => CountIsStable /\ CountIsOfMatches

\* C8 on the entities that declare no field named page or limit
C8_StableWithoutPagingFields == (AllOn /\ ~DeclaresPagingField) => CountIsStable /\ CountIsOfMatches

C8_FewerRowsThanCount ==
    /\ AllOn
    /\ res.status = "ok"
    /\ res.value.count = 3
    /\ Len(res.value.data) = 1

PageOf(query) == IF "page" \in DOMAIN query THEN DigitPrefix(query["page"].s, 1, 0) ELSE DefaultPage
LimitOf(query) == IF "limit" \in DOMAIN query THEN DigitPrefix(query["limit"].s, 1, 0) ELSE DefaultLimit

\* C9: with page >= 1 and limit >= 1 (1 and 100 when absent), every findMany
\* that all issues has skip = (page - 1) * limit and take = limit, and the
\* data returned has at most limit rows.
C9_SkipAndTake ==
    (AllOn /\ PageOf(req.query) >= 1 /\ LimitOf(req.query) >= 1) =>
        /\ \A i \in DOMAIN calls :
               calls[i].op = "findMany" =>
                   /\ calls[i].skip = Num((PageOf(req.query) - 1) * LimitOf(req.query))
                   /\ calls[i].take = Num(LimitOf(req.query))
        /\ res.status = "ok" => Len(res.value.data) <= LimitOf(req.query)

C9_Witness ==
    /\ AllOn
    /\ "page" \in DOMAIN req.query /\ req.query["page"] = Str(<<"2">>)
    /\ "limit" \in DOMAIN req.query /\ req.query["limit"] = Str(<<"2">>)
    /\ Len(calls) = 2
    /\ calls[2].op = "findMany"
    /\ calls[2].skip = Num(2)
    /\ calls[2].take = Num(2)
    /\ res.status = "ok"
    /\ res.value.count = 3
    /\ Len(res.value.data) = 1

C9_WitnessDefaults ==
    /\ AllOn
    /\ DOMAIN req.query = {}
    /\ Len(calls) = 2
    /\ calls[2].skip = Num(0)
    /\ calls[2].take = Num(100)
    /\ Len(res.value.data) = 3

----------------------------------------------------------------------------
(* sanitizeData claims.                                                    *)

Sanitized == req.op = "sanitizeData" /\ res.status = "ok"

\* C10: sanitizeData applied to its own result returns that result; every key
\* of a result is a key of the payload, and every kept key has the payload's
\* value.
C10_IdempotentAndOnlyRemoves ==
    Sanitized =>
        /\ Len(calls) = 1 => res.value = calls[1]
        /\ DOMAIN res.value \subseteq DOMAIN req.data
        /\ \A k \in DOMAIN res.value : res.value[k] = req.data[k]

C10_Witness ==
    /\ Sanitized
    /\ Len(calls) = 1
    /\ {"bogus", "extra", "name", "relations"} \subseteq DOMAIN req.data
    /\ DOMAIN res.value = DOMAIN req.data \ {"bogus", "extra"}
    /\ res.value = calls[1]

----------------------------------------------------------------------------
(* Sanitization of what reaches the backend.                               *)

WriteCalls == {i \in DOMAIN calls : calls[i].op \in {"create", "update"}}

\* C11: every key of the data passed to the backend create or update call is
\* a field declared in the entity's schema.
C11_BackendDataIsDeclared ==
    (Built /\ req.op \in {"create", "update"}) =>
        \A i \in WriteCalls : DOMAIN calls[i].data \subseteq FieldsOf(calls[i].model)

\* C11 for the payloads that do not carry the key relations
C11_DeclaredUnlessRelationsKey ==
    (Built /\ req.op \in {"create", "update"} /\ "relations" \notin DOMAIN req.data) =>
        \A i \in WriteCalls : DOMAIN calls[i].data \subseteq FieldsOf(calls[i].model)

C11_RelationsKeyReachesBackend ==
    /\ Built
    /\ req.op \in {"create", "update"}
    /\ {"bogus", "relations"} \subseteq DOMAIN req.data
    /\ WriteCalls # {}
    /\ \A i \in WriteCalls : "relations" \in DOMAIN calls[i].data /\ "bogus" \notin DOMAIN calls[i].data

----------------------------------------------------------------------------
(* Controller claims.                                                      *)

\* the invocations a request makes of the operation it asks for
OwnInvocations(t) ==
    {i \in DOMAIN tasks[t].invoked : tasks[t].invoked[i].op = tasks[t].op}

\* C12: for each of the six operations, the supplied service's operation is
\* the one invoked when the service object defines it, and PrimateService's
\* when it does not.
C12_SuppliedOperationWins ==
    \A t \in DOMAIN tasks : \A i \in OwnInvocations(t) :
        tasks[t].invoked[i].target = ServiceFor(tasks[t].op)

\* C12 for create, update, delete and all
C12_WinsExceptGetAndUpdateMetas ==
    \A t \in DOMAIN tasks : \A i \in OwnInvocations(t) :
        tasks[t].op \notin {"get", "updateMetas"} =>
            tasks[t].invoked[i].target = ServiceFor(tasks[t].op)

C12_SuppliedGetPassedOver ==
    \E t \in DOMAIN tasks :
        /\ tasks[t].op = "get"
        /\ IsFunction("get")
        /\ tasks[t].invoked # <<>>
        /\ tasks[t].invoked[1].target = "generic"

\* C13: whenever the backend create or update call fails with P2002, the
\* error response carries '<ModelName> already exists', on the generic path
\* and on a supplied service's path.
C13_ConflictIsAlreadyExists ==
    \A t \in DOMAIN tasks :
        (tasks[t].pc = "done" /\ tasks[t].op \in {"create", "update"} /\ tasks[t].backend = "P2002") =>
            tasks[t].response.message = "Post already exists"

\* C13 for update, and for create through a supplied service
C13_ConflictExceptGenericCreate ==
    \A t \in DOMAIN tasks :
        (/\ tasks[t].pc = "done"
         /\ tasks[t].backend = "P2002"
         /\ tasks[t].op = "update" \/ (tasks[t].op = "create" /\ IsFunction("create"))) =>
            tasks[t].response.message = "Post already exists"

C13_GenericCreateConflict ==
    \E t \in DOMAIN tasks :
        /\ tasks[t].pc = "done"
        /\ tasks[t].op = "create"
        /\ ~IsFunction("create")
        /\ tasks[t].backend = "P2002"
        /\ tasks[t].response = Respond(400, "Error creating Post: ", "P2002")

\* C14: the options a request's service call receives carry that request's own
\* user (idUser for create and update, user for all), whatever the other
\* request does in between.
C14_OptionsCarryOwnUser ==
    \A t \in DOMAIN tasks : \A i \in DOMAIN tasks[t].invoked :
        /\ tasks[t].op \in {"create", "update"} => tasks[t].invoked[i].idUser = tasks[t].user
        /\ tasks[t].op = "all" => tasks[t].invoked[i].user = tasks[t].user

\* C14 for the calls made before the handler's first await
C14_OwnUserAtFirstCall ==
    \A t \in DOMAIN tasks :
        tasks[t].invoked # <<>> =>
            /\ tasks[t].op \in {"create", "update"} => tasks[t].invoked[1].idUser = tasks[t].user
            /\ tasks[t].op = "all" => tasks[t].invoked[1].user = tasks[t].user

C14_UpdateWithOtherUser ==
    \E t \in DOMAIN tasks :
        /\ tasks[t].op = "update"
        /\ Len(tasks[t].invoked) = 2
        /\ tasks[t].invoked[1].idUser = tasks[t].user
        /\ tasks[t].invoked[2].idUser # tasks[t].user

----------------------------------------------------------------------------
(* Concurrency of the reconciliation.                                      *)

\* the related set a call asked for
DesiredIds(t) == IdSet(tasks[t].data[PluralB].connect)

BothWritten == Written = DOMAIN tasks /\ ctl = NoController /\ DOMAIN tasks = Requests

\* C15: the read of the related set and the write are not atomic. When both
\* reads precede both writes, the record ends with the later writer's desired
\* set together with everything the earlier writer connected that neither
\* read saw; when the second read follows the first write it ends with the
\* later writer's desired set.
C15_RaceKeepsEarlierConnects ==
    BothWritten =>
        \A w \in Requests : \A o \in Requests \ {w} :
            tasks[w].order > tasks[o].order =>
                db.related = IF tasks[w].raced
                             THEN DesiredIds(w) \cup (DesiredIds(o) \ tasks[w].read)
                             ELSE DesiredIds(w)

\* both reads preceded both writes and the related set is neither desired set
C15_NeitherDesiredSet ==
    /\ BothWritten
    /\ \A t \in Requests : tasks[t].raced
    /\ \A t \in Requests : db.related # DesiredIds(t)

----------------------------------------------------------------------------
(* Await ordering.                                                         *)

\* every occurrence of event b in the log comes after an occurrence of event a
Precedes(log, a, b) ==
    \A j \in DOMAIN log : log[j] = b => \E i \in 1 .. j - 1 : log[i] = a

AsyncCalls == IF ctl = NoController THEN DOMAIN tasks ELSE {}

\* C17: in an update with an array-valued many-to-many field, filterUpdateData
\* has returned before the read of the related set is issued and the read has
\* returned before the update is issued; in all, filterAllQuery has returned
\* before count is issued and count has returned before findMany is issued.
C17_AwaitedInOrder ==
    \A t \in AsyncCalls :
        /\ tasks[t].op = "update" =>
              /\ tasks[t].hook => Precedes(tasks[t].log, "filterUpdateData returned", "findUnique issued")
              /\ Precedes(tasks[t].log, "findUnique returned", "update issued")
        /\ tasks[t].op = "all" =>
              /\ tasks[t].hook => Precedes(tasks[t].log, "filterAllQuery returned", "count issued")
              /\ Precedes(tasks[t].log, "count returned", "findMany issued")

C17_Witness ==
    \E t \in AsyncCalls : \E u \in AsyncCalls :
        /\ tasks[t].op = "update" /\ tasks[t].hook /\ tasks[t].pc = "done"
        /\ tasks[t].log = <<"filterUpdateData called", "filterUpdateData returned", "findUnique issued",
                            "findUnique returned", "update issued", "update returned">>
        /\ tasks[u].op = "all" /\ tasks[u].hook /\ tasks[u].pc = "done"
        /\ tasks[u].log = <<"filterAllQuery called", "filterAllQuery returned", "count issued",
                            "count returned", "findMany issued", "findMany returned">>

----------------------------------------------------------------------------
(* updateMetas claims.                                                     *)

MetasUpdated == req.op = "updateMetas" /\ res.status = "ok"

\* C18: after updateMetas(id, P, entity) on an existing record the stored
\* metas map each key of P to P's value and each key stored before and not in
\* P to its stored value, and have no other keys; the one update issued
\* writes metas and nothing else, and no other field of the record changes.
C18_ShallowMerge ==
    [][(req = NoRequest /\ req'.op = "updateMetas" /\ res'.status = "ok") =>
          /\ ~db'["metas"].null
          /\ DOMAIN db'["metas"].map = DOMAIN db["metas"].map \cup DOMAIN req'.data
          /\ \A k \in DOMAIN db'["metas"].map :
                db'["metas"].map[k] = IF k \in DOMAIN req'.data THEN req'.data[k] ELSE db["metas"].map[k]
          /\ \A i \in DOMAIN calls' : calls'[i].op = "update" => DOMAIN calls'[i].data = {"metas"}
          /\ db'["title"] = db["title"] /\ db'["related"] = db["related"]]_vars

C18_Witness ==
    /\ MetasUpdated
    /\ DOMAIN req.data = {"a"}
    /\ DOMAIN db["metas"].map = {"a", "b"}
    /\ db["metas"].map["a"] = req.data["a"]
    /\ db["metas"].map["b"] # req.data["a"]

----------------------------------------------------------------------------
(* The descriptor map after initialisation.                                *)

\* C16: once the module is loaded, whatever create, update, delete, all, get,
\* updateMetas and sanitizeData calls are made, the descriptor map is the one
\* built at startup from the schema: every entity's field-to-type map and
\* relations map are unchanged.
C16_DescriptorMapUnchanged ==
    pc = "ready" => orm = generatePrismaOrmObject(dmmf)

C16_Witness ==
    /\ pc = "ready"
    /\ ~orm.null
    /\ orm = generatePrismaOrmObject(dmmf)
    /\ ~RecordStored
    /\ ~db["metas"].null
    /\ db["related"] # {}
    /\ req.op = "sanitizeData"
    /\ res.status = "ok"
    /\ DOMAIN res.value # DOMAIN req.data

----------------------------------------------------------------------------
(* Listing: the count-only request and the direct field filters.           *)

FindManyCalls == {i \in DOMAIN calls : calls[i].op = "findMany"}

\* C19: whenever the count query parameter is truthy, all issues no findMany
\* and what it returns is {data: [], count: <number of matching rows>}.
C19_CountOnlyFetchesNoRows ==
    (AllOn /\ TruthyAt(req.query, "count")) =>
        /\ FindManyCalls = {}
        /\ res.status = "ok" =>
              /\ res.value.data = <<>>
              /\ res.value.count = Cardinality({i \in DOMAIN db.rows : Matches(db.rows[i], calls[1].where)})

C19_Witness ==
    /\ AllOn
    /\ "count" \in DOMAIN req.query
    /\ req.query["count"] = Str(<<"0">>)
    /\ Len(calls) = 1
    /\ calls[1].op = "count"
    /\ res = Ok([data |-> <<>>, count |-> 3])

\* the filter the claim gives for a value
FilterOfValue(v) ==
    IF \E i \in DOMAIN v.s : v.s[i] = ","
    THEN [kind |-> "in", values |-> Split(v.s, ",")]
    ELSE IF \E i \in DOMAIN v.s : v.s[i] = "|"
         THEN [kind |-> "has", values |-> Split(v.s, "|")]
         ELSE [kind |-> "equals", values |-> <<v.s>>]

\* C20 as stated: for every query parameter k with string value v, the where
\* built by all has a filter on k if and only if k is a declared field of the
\* entity; the filter is {in: parts} for a comma, {has: parts} for a pipe and
\* no comma, equality with v otherwise.
C20_FilterIffDeclared ==
    (AllOn /\ calls # <<>>) =>
        \A k \in DOMAIN req.query :
            /\ k \in DOMAIN calls[1].where <=> k \in FieldsOf(req.model)
            /\ k \in DOMAIN calls[1].where => calls[1].where[k] = FilterOfValue(req.query[k])

\* C20 for the non-empty values and the parameters not named relations
C20_FilterIffDeclaredAndNonEmpty ==
    (AllOn /\ calls # <<>>) =>
        \A k \in DOMAIN req.query \ {"relations"} :
            /\ k \in DOMAIN calls[1].where <=> (k \in FieldsOf(req.model) /\ req.query[k].s # <<>>)
            /\ k \in DOMAIN calls[1].where => calls[1].where[k] = FilterOfValue(req.query[k])

C20_RelationsParameterFiltered ==
    /\ AllOn
    /\ calls # <<>>
    /\ "relations" \in DOMAIN req.query
    /\ "relations" \notin FieldsOf(req.model)
    /\ "relations" \in DOMAIN calls[1].where

C20_EmptyValueNotFiltered ==
    /\ AllOn
    /\ calls # <<>>
    /\ "title" \in DOMAIN req.query
    /\ "title" \in FieldsOf(req.model)
    /\ "title" \notin DOMAIN calls[1].where

----------------------------------------------------------------------------
(* Claims on the identifier forms and on the directives of update.         *)

\* the identifier is in its entirety an integer literal
IsIntegerLiteral(id) == Len(id.s) > 0 /\ \A i \in DOMAIN id.s : IsDigit(id.s[i])

\* C30 as stated: an identifier that is not in its entirety an integer literal
\* is never read by a primary-key filter: it is read by {uid: id} when the
\* entity declares uid, and the call fails without a read otherwise.
C30_TextualIdNeverPrimaryKey ==
    \A m \in DOMAIN orm.obj :
        GetOn(m) /\ ~IsIntegerLiteral(req.id) =>
            IF "uid" \in FieldsOf(m)
            THEN OneRead /\ calls[1].where = Obj({<<"uid", req.id>>})
            ELSE calls = <<>> /\ res.status = "error"

\* the uid '7up' of an entity with an Int id and a uid is read as primary key 7
C30_DigitPrefixReadAsKey ==
    /\ GetOn("user")
    /\ req.id = Str(<<"7", "u", "p">>)
    /\ "uid" \in FieldsOf("user")
    /\ OneRead
    /\ calls[1].where = Obj({<<"id", Num(7)>>})

\* the numeric ids of a connect or disconnect list
NumericIds(list) == {list[i].n : i \in {j \in DOMAIN list : list[j].k = "num"}}

\* C26 as stated: in every backend update no id is both in the connect list
\* and in the disconnect list of the same relation.
C26_ConnectDisconnectDisjoint ==
    \A i \in DOMAIN calls :
        calls[i].op = "update" =>
            \A f \in DOMAIN calls[i].data :
                calls[i].data[f].k = "many" =>
                    NumericIds(calls[i].data[f].connect) \cap NumericIds(calls[i].data[f].disconnect) = {}

\* C26 restricted to desired ids given as numbers, raw or in objects: the
\* strict comparison of line 158 and 177 then finds every stored id that is desired
C26_DisjointForNumbers ==
    \A i \in DOMAIN calls :
        (/\ calls[i].op = "update"
         /\ PluralB \in DOMAIN req.data
         /\ req.data[PluralB].k = "arr"
         /\ \A j \in DOMAIN req.data[PluralB].items :
               /\ req.data[PluralB].items[j].v.k = "num"
               /\ req.data[PluralB].items[j].obj = FirstIsObject(req.data[PluralB].items)) =>
            \A f \in DOMAIN calls[i].data :
                calls[i].data[f].k = "many" =>
                    NumericIds(calls[i].data[f].connect) \cap NumericIds(calls[i].data[f].disconnect) = {}

\* a stored id given as a numeric string is connected and disconnected at once
C26_NumericStringInBoth ==
    /\ req.op = "update"
    /\ req.data = Obj({<<PluralB, Arr(<<Item(FALSE, Str(<<"2">>))>>)>>})
    /\ Len(calls) = 2
    /\ calls[2].op = "update"
    /\ calls[2].data[PluralB].connect = <<Num(2)>>
    /\ 2 \in NumericIds(calls[2].data[PluralB].disconnect)

----------------------------------------------------------------------------
(* Auth middleware claim.                                                  *)

\* C27: next() is called only after the token was verified and req.user was
\* set to its payload; a request never gets both next() and a 401 response,
\* nor either of them twice, and a request the middleware is done with got
\* exactly one of the two.
C27_AuthGate ==
    \A t \in DOMAIN tasks :
        /\ tasks[t].nexts > 0 =>
               /\ tasks[t].verified
               /\ Verifies(tasks[t].header)
               /\ tasks[t].user = tasks[t].header.user
        /\ tasks[t].nexts + Len(tasks[t].responses) <= 1
        /\ \A i \in DOMAIN tasks[t].responses : tasks[t].responses[i] = 401
        /\ tasks[t].at = "done" => tasks[t].nexts + Len(tasks[t].responses) = 1

\* C27, never neither: every request that is awaiting the verification is
\* eventually done, hence has got its next() or its 401 response.
C27_AuthEventuallyAnswers ==
    \A t \in 1 .. MaxAuthRequests :
        (t \in DOMAIN tasks /\ tasks[t].at = "verify") ~> (t \notin DOMAIN tasks \/ tasks[t].at = "done")

\* one request passed on with its user while another was refused
C27_Witness ==
    /\ Len(tasks) = 2
    /\ tasks[1].header = Header("Bearer", "expired", 1)
    /\ tasks[1].responses = <<401>> /\ tasks[1].nexts = 0 /\ tasks[1].user = NoUser
    /\ tasks[2].header = Header("Bearer", "signed", 2)
    /\ tasks[2].nexts = 1 /\ tasks[2].responses = <<>> /\ tasks[2].user = 2

----------------------------------------------------------------------------
(* Claim on the dynamically imported service.                              *)

\* C29 as stated: every operation the service file exports is served by the
\* custom service, whenever the request is handled.
C29_CustomServiceFromFirstRequest ==
    \A t \in DOMAIN tasks :
        \A i \in DOMAIN tasks[t].invoked :
            tasks[t].invoked[i].op \in ctl.module => tasks[t].invoked[i].target = "custom"

\* what the controller does instead: as long as the import is pending, every
\* request is served by the generic PrimateService
C29_GenericWhileImportPending ==
    ctl.importing =>
        \A t \in DOMAIN tasks :
            \A i \in DOMAIN tasks[t].invoked : tasks[t].invoked[i].target = "generic"

\* a create handled and answered by the generic service before the import resolved
C29_FirstRequestServedByGeneric ==
    /\ ctl.importing
    /\ "create" \in ctl.module
    /\ tasks[1].op = "create"
    /\ tasks[1].pc = "done"
    /\ tasks[1].invoked[1].target = "generic"

----------------------------------------------------------------------------
(* Claim on the list handler in front of the generic service.              *)

\* a list request the handler has answered
FacadeOn == req.op = "all" /\ Built /\ Len(tasks) = 1 /\ tasks[1].pc = "done"

BeginsWithDigits(v) == v.k = "str" /\ Len(v.s) > 0 /\ IsDigit(v.s[1])

\* the declared fields the request filters on with a value beginning with digits
NumericLooking == {f \in DOMAIN req.data : f \in FieldsOf("post") /\ BeginsWithDigits(req.data[f])}

\* C28 as stated: a list request with a declared-field parameter whose value
\* begins with digits completes without an error, and the where predicate
\* filters that field on exactly the requested value or list of values.
C28_NumericLookingFilterSurvives ==
    FacadeOn =>
        \A f \in NumericLooking :
            /\ res.status = "ok"
            /\ tasks[1].response.status # 401
            /\ Len(calls) >= 1
            /\ f \in DOMAIN calls[1].where
            /\ calls[1].where[f] = FieldFilter(req.data[f])

\* what the handler does instead: the value reaches the service as the number
\* parseInt reads from it; a number other than 0 makes the service throw before
\* any backend call and the handler answers 401, and 0 drops the filter
C28_NumericLookingFilterThrows ==
    FacadeOn =>
        \A f \in NumericLooking :
            /\ req.query[f] = parseInt(req.data[f])
            /\ IF \E g \in NumericLooking : parseInt(req.data[g]).n # 0
               THEN calls = <<>> /\ res.status = "error" /\ tasks[1].response.status = 401
               ELSE \A i \in DOMAIN calls : f \notin DOMAIN calls[i].where

\* ?title=5,6 is answered 401 without a backend call
C28_ListOfNumbersRefused ==
    /\ FacadeOn
    /\ req.data = Obj({<<"title", Str(<<"5", ",", "6">>)>>})
    /\ req.query = Obj({<<"title", Num(5)>>})
    /\ calls = <<>>
    /\ tasks[1].response.status = 401

----------------------------------------------------------------------------
(* Claim on concurrent updateMetas calls.                                  *)

\* both calls are updateMetas calls on the record, with disjoint key sets, and
\* both have completed
BothMetasWritten ==
    /\ Built
    /\ \A t \in DOMAIN tasks : tasks[t].op = "updateMetas" /\ tasks[t].pc = "done"
    /\ DOMAIN tasks[1].data \cap DOMAIN tasks[2].data = {}

\* C24 as stated: after two updateMetas calls with disjoint key sets have both
\* completed, the stored metas contain every key supplied by either call, in
\* every interleaving of their reads and writes.
C24_NoKeyLost ==
    BothMetasWritten =>
        \A t \in DOMAIN tasks :
            \A k \in DOMAIN tasks[t].data :
                k \in DOMAIN db["metas"].map /\ db["metas"].map[k] = tasks[t].data[k]

\* what the calls do instead: the stored metas are the object the later write
\* built from its own read, and every key is kept when the first write came
\* before the second read
C24_LaterWriteWins ==
    BothMetasWritten =>
        \A t \in DOMAIN tasks :
            /\ tasks[t].order = 2 => db["metas"].map = tasks[t].read
            /\ (tasks[t].order = 1 /\ ~tasks[t].raced) =>
                  \A u \in DOMAIN tasks : \A k \in DOMAIN tasks[u].data :
                      k \in DOMAIN db["metas"].map /\ db["metas"].map[k] = tasks[u].data[k]

\* both calls read null metas, then {a: 1} and {b: 1} are written in turn: a is lost
C24_FirstWritersKeyLost ==
    /\ BothMetasWritten
    /\ tasks[1].data = Obj({<<"a", 1>>}) /\ tasks[1].order = 1 /\ tasks[1].raced
    /\ tasks[2].data = Obj({<<"b", 1>>}) /\ tasks[2].order = 2
    /\ db["metas"] = Metas(Obj({<<"b", 1>>}))

----------------------------------------------------------------------------
(* Claims on fetch-<name>, on options.searchField and on the identifier of *)
(* update.                                                                 *)

\* the findMany calls of a list request
ListReads == {i \in DOMAIN calls : calls[i].op = "findMany"}

\* C21 as stated: for get and for all, the include of the backend read holds
\* <name> for every fetch-<name> parameter whose name is a declared field of
\* the entity, and for no other name.
C21_IncludeEveryKnownFetch ==
    /\ (GetOn("user") /\ OneRead) =>
          calls[1].data = {n \in req.query.fetch : n \in FieldsOf("user")}
    /\ (req.op = "all" /\ Built) =>
          \A i \in ListReads :
              calls[i].include = {n \in SeqToSet(FetchNames(req.query)) : n \in FieldsOf("user")}

\* what the two operations do: get includes every fetched name that is a field
\* or the key relations; all looks at the first fetch-<name> parameter only
C21_GetEveryAllFirstOnly ==
    /\ (GetOn("user") /\ OneRead) =>
          calls[1].data = {n \in req.query.fetch :
                             n \in FieldsOf("user") \/ (n = "relations" /\ orm.obj["user"].hasRelations)}
    /\ (req.op = "all" /\ Built) =>
          \A i \in ListReads :
              LET names == FetchNames(req.query)
              IN calls[i].include =
                    IF names # <<>> /\ (names[1] \in FieldsOf("user")
                                        \/ (names[1] = "relations" /\ orm.obj["user"].hasRelations))
                    THEN {names[1]} ELSE {}

\* ?fetch-bogus&fetch-teams lists the users without their teams
C21_LaterFetchIgnored ==
    /\ req.op = "all"
    /\ Built
    /\ FetchNames(req.query) = <<"bogus", "teams">>
    /\ ListReads # {}
    /\ \A i \in ListReads : calls[i].include = {}

\* an update that passed its argument checks
UpdateOn(model) ==
    req.op = "update" /\ Built /\ LowerFirst(req.model) = model /\ KnownModel(model) /\ Truthy(req.id)

\* the listed fields the entity declares, each filtered on the id, converted
\* where the declared type is Int
RECURSIVE DeclaredFilters(_, _, _, _)
DeclaredFilters(model, fields, id, i) ==
    IF i > Len(fields) THEN <<>>
    ELSE (IF fields[i] \in FieldsOf(model)
          THEN <<Obj({<<fields[i], IF orm.obj[model].fields[fields[i]] = "Int" THEN parseInt(id) ELSE id>>})>>
          ELSE <<>>)
         \o DeclaredFilters(model, fields, id, i + 1)

SearchOn(model) ==
    GetOn(model) /\ req.options.kind = "array" /\ ~ParsesAsInteger(req.id)

\* C22 as stated: with an id that does not parse as an integer and a list
\* options.searchField, the read filter is the OR (the single filter when one
\* remains) over the listed fields the entity declares, the id converted to an
\* integer for every field declared Int.
C22_SearchFieldFilter ==
    SearchOn("user") =>
        LET claimed == DeclaredFilters("user", req.options.fields, req.id, 1)
        IN /\ OneRead
           /\ calls[1].where = IF Len(claimed) = 1 THEN claimed[1] ELSE OrOf(claimed)

\* what get builds: every filter carries the id as given, and the listed
\* fields kept are the own properties of the model object
C22_SearchFieldNeverConverted ==
    SearchOn("user") =>
        /\ OneRead
        /\ LET kept == SelectSeq(req.options.fields,
                                 LAMBDA f : f \in FieldsOf("user")
                                            \/ (f = "relations" /\ orm.obj["user"].hasRelations))
               filters == [i \in DOMAIN kept |-> Obj({<<kept[i], req.id>>})]
           IN calls[1].where = IF Len(filters) = 1 THEN filters[1] ELSE OrOf(filters)

\* searchField ['age'] with the id 'zzz': the Int field is filtered on the string
C22_IntFieldFilteredOnString ==
    /\ SearchOn("user")
    /\ req.options.fields = <<"age">>
    /\ req.id = Str(<<"z", "z", "z">>)
    /\ OneRead
    /\ calls[1].where = Obj({<<"age", req.id>>})
    /\ calls[1].result = "rejected"

\* the backend updates of an update request
Writes == {i \in DOMAIN calls : calls[i].op = "update"}

\* the relation reads of an update request
DiffReads == {i \in DOMAIN calls : calls[i].op = "findUnique"}

\* the two filters are the same, or both select the stored record
SameRecord(model, w1, w2) ==
    \/ w1 = w2
    \/ /\ w1 # NoWhere /\ w2 # NoWhere
       /\ FindFirst(model, w1) = "found"
       /\ FindFirst(model, w2) = "found"

\* an update whose payload needs no read of the record
ScalarUpdateOn(model) == UpdateOn(model) /\ PluralB \notin DOMAIN req.data

\* C23 as stated: the where of the backend update selects the same record as
\* the where get builds for the same id and options; where get fails, so does
\* update.
C23_UpdateResolvesLikeGet ==
    ScalarUpdateOn("user") =>
        LET g == GetWhere(req.id, "user", req.options)
        IN IF g.thrown THEN Writes = {}
           ELSE /\ Writes # {}
                /\ \A i \in Writes : SameRecord("user", calls[i].where, g.value)

\* the two agree for every id that parses as an integer, and for a searchField
\* list of one field the entity declares
C23_SameForIntegerIdsAndOneField ==
    (ScalarUpdateOn("user")
     /\ (ParsesAsInteger(req.id)
         \/ (/\ req.options.kind = "array"
             /\ Len(req.options.fields) = 1
             /\ req.options.fields[1] \in FieldsOf("user")))) =>
        LET g == GetWhere(req.id, "user", req.options)
        IN IF g.thrown THEN Writes = {}
           ELSE /\ Writes # {}
                /\ \A i \in Writes : calls[i].where = g.value

\* the uid of the record given to update: get would read {uid: 'abc'}, update fails
C23_UidNotResolvedByUpdate ==
    /\ ScalarUpdateOn("user")
    /\ req.id = Str(RecordUid)
    /\ req.options = NoOptions
    /\ ~GetWhere(req.id, "user", req.options).thrown
    /\ GetWhere(req.id, "user", req.options).value = Obj({<<"uid", req.id>>})
    /\ Writes = {}
    /\ res.status = "error"

\* an update with an array-valued many-to-many field
ReconcilingOn(model) ==
    /\ UpdateOn(model)
    /\ PluralB \in DOMAIN req.data
    /\ req.data[PluralB].k = "arr"
    /\ Len(req.data[PluralB].items) > 0

\* C25 as stated: the record read for the diff is the record the update
\* targets, for an integer id and for an id resolved through searchField.
C25_DiffReadsWrittenRecord ==
    ReconcilingOn("user") =>
        LET target == UpdateWhere(req.id, "user", req.options)
        IN ~target.thrown =>
              /\ DiffReads # {}
              /\ \A i \in DiffReads : SameRecord("user", calls[i].where, target.value)

\* what update does: the diff is read by {id: parseInt(id)} whatever the form
\* of the identifier, and a backend update follows only a read that found the record
C25_DiffReadByParsedId ==
    ReconcilingOn("user") =>
        /\ DiffReads # {}
        /\ \A i \in DiffReads : calls[i].where = Obj({<<"id", parseInt(req.id)>>})
        /\ Writes # {} => parseInt(req.id) = Num(RecordId)

\* the record's uid with searchField ['uid']: the diff is read by {id: NaN},
\* finds nothing, and the update of {uid: 'abc'} is never issued
C25_SearchFieldReadsNoRecord ==
    /\ ReconcilingOn("user")
    /\ req.id = Str(RecordUid)
    /\ req.options = Options("array", <<"uid">>)
    /\ ~UpdateWhere(req.id, "user", req.options).thrown
    /\ UpdateWhere(req.id, "user", req.options).value = Obj({<<"uid", req.id>>})
    /\ Len(calls) = 1
    /\ calls[1].where = Obj({<<"id", NaN>>})
    /\ res.status = "error"
====
